---- MODULE Spec2Model ----
(***************************************************************************)
(* Model of the resume chatbot (xeno035/info-chatbot).                     *)
(*                                                                         *)
(* This part models the RetrievalResponder of src/lib/chatbot.ts:          *)
(* normalizeParsed, answerFromParsed (with its call of the Gemini          *)
(* collaborator of src/lib/gemini.ts) and answerFromParsedDeterministic.   *)
(*                                                                         *)
(* JavaScript strings are TLA+ strings; the string methods the code uses   *)
(* (trim, toLowerCase, includes, join, template literals) are computed     *)
(* character by character.  JavaScript values of dynamic type are records  *)
(* carrying a type tag t, so that a stored record of a foreign shape       *)
(* (null entries, numbers where strings are expected) is a value of the    *)
(* model, and a TypeError of the code is the result kind "throw".          *)
(***************************************************************************)
EXTENDS Integers, Sequences, FiniteSets, TLC

(***************************************************************************)
(* String primitives (ECMAScript String.prototype)                         *)
(***************************************************************************)
UpperChars == "ABCDEFGHIJKLMNOPQRSTUVWXYZ"
LowerChars == "abcdefghijklmnopqrstuvwxyz"

CharAt(s, i) == SubSeq(s, i, i)

IsWhiteSpace(c) == c \in {" ", "\n", "\t"}

UpperSet == {CharAt(UpperChars, i) : i \in 1..26}

LowerOf == [c \in UpperSet |-> CharAt(LowerChars, CHOOSE i \in 1..26 : CharAt(UpperChars, i) = c)]

LowerChar(c) == IF c \in UpperSet THEN LowerOf[c] ELSE c

\* by halves, so that the evaluation of a long text stays shallow
RECURSIVE toLowerCase(_)
toLowerCase(s) ==
  IF Len(s) = 0 THEN ""
  ELSE IF Len(s) = 1 THEN LowerChar(s)
  ELSE toLowerCase(SubSeq(s, 1, Len(s) \div 2))
       \o toLowerCase(SubSeq(s, (Len(s) \div 2) + 1, Len(s)))

RECURSIVE trimStart(_)
trimStart(s) ==
  IF Len(s) = 0 THEN ""
  ELSE IF IsWhiteSpace(CharAt(s, 1)) THEN trimStart(SubSeq(s, 2, Len(s)))
  ELSE s

RECURSIVE trimEnd(_)
trimEnd(s) ==
  IF Len(s) = 0 THEN ""
  ELSE IF IsWhiteSpace(CharAt(s, Len(s))) THEN trimEnd(SubSeq(s, 1, Len(s) - 1))
  ELSE s

trim(s) == trimEnd(trimStart(s))

\* String.prototype.includes: k occurs in s as a contiguous substring
includes(s, k) ==
  \E i \in 1..(Len(s) - Len(k) + 1) : SubSeq(s, i, i + Len(k) - 1) = k

\* Array.prototype.join over an array of strings
RECURSIVE join(_, _)
join(items, sep) ==
  IF Len(items) = 0 THEN ""
  ELSE IF Len(items) = 1 THEN items[1]
  ELSE items[1] \o sep \o join(Tail(items), sep)

\* String.prototype.slice(0, n)
slice0(s, n) == IF Len(s) <= n THEN s ELSE SubSeq(s, 1, n)

(***************************************************************************)
(* JavaScript values                                                       *)
(***************************************************************************)
\* a scalar value: undefined, null, a string, or a number (s = its digits)
Undef == [t |-> "undefined", s |-> ""]
Null == [t |-> "null", s |-> ""]
Str(x) == [t |-> "string", s |-> x]
Num(x) == [t |-> "number", s |-> x]

\* ToBoolean of a scalar (the numbers of the model are non-zero)
Truthy(v) == (v.t = "string" /\ v.s # "") \/ v.t = "number"

\* a || b
OrElse(a, b) == IF Truthy(a) THEN a ELSE b

\* String(v) and `${v}`
JsString(v) ==
  CASE v.t = "undefined" -> "undefined"
    [] v.t = "null" -> "null"
    [] OTHER -> v.s

\* an array value, or a non-array in its place
Arr(items) == [t |-> "array", items |-> items]
NoArr(type) == [t |-> type, items |-> <<>>]
isArray(a) == a.t = "array"

\* the two glyphs of the answer templates that are outside ASCII
EmDash == "--"
BulletDot == "*"

(***************************************************************************)
(* The stored record (ResumeData of src/lib/types.ts, as loaded from the   *)
(* database, so of any shape)                                              *)
(***************************************************************************)
\* an element of skills_or_tech_stack, certifications or languages:
\* a scalar, or an object with the fields name, title, issued_by
Item(v) == [t |-> v.t, s |-> v.s, name |-> Undef, title |-> Undef, issued_by |-> Undef]
ItemObj(name, title, issued_by) ==
  [t |-> "object", s |-> "[object Object]", name |-> name, title |-> title,
   issued_by |-> issued_by]

\* an element of experience
NoExperienceFields ==
  [title |-> Undef, role |-> Undef, position |-> Undef, organization |-> Undef,
   company |-> Undef, employer |-> Undef, start_date |-> Undef, start_year |-> Undef,
   from |-> Undef, duration |-> Undef, end_date |-> Undef, end_year |-> Undef,
   to |-> Undef, description |-> Undef, details |-> Undef]
ExperienceEntry(company, position, duration, responsibilities, details) ==
  [t |-> "object", s |-> "[object Object]",
   f |-> [NoExperienceFields EXCEPT !.company = company, !.position = position,
                                    !.duration = duration, !.details = details],
   responsibilities |-> responsibilities]
ExperienceScalar(v) ==
  [t |-> v.t, s |-> v.s, f |-> NoExperienceFields, responsibilities |-> NoArr("undefined")]

\* an element of education
NoEducationFields ==
  [degree |-> Undef, title |-> Undef, institution |-> Undef, school |-> Undef,
   field |-> Undef, year |-> Undef, end_year |-> Undef, details |-> Undef]
EducationEntry(institution, degree, field, year, details) ==
  [t |-> "object", s |-> "[object Object]",
   f |-> [NoEducationFields EXCEPT !.institution = institution, !.degree = degree,
                                   !.field = field, !.year = year, !.details = details]]
EducationScalar(v) == [t |-> v.t, s |-> v.s, f |-> NoEducationFields]

\* an element of projects
NoProjectFields ==
  [title |-> Undef, name |-> Undef, description |-> Undef, details |-> Undef]
ProjectEntry(name, description, technologies, details) ==
  [t |-> "object", s |-> "[object Object]",
   f |-> [NoProjectFields EXCEPT !.name = name, !.description = description,
                                 !.details = details],
   technologies |-> technologies]
ProjectScalar(v) ==
  [t |-> v.t, s |-> v.s, f |-> NoProjectFields, technologies |-> NoArr("undefined")]

\* contact_information
ContactInfo(name, email, phone, location) ==
  [t |-> "object", name |-> name, email |-> email, phone |-> phone, location |-> location]
NoContact(type) ==
  [t |-> type, name |-> Undef, email |-> Undef, phone |-> Undef, location |-> Undef]

\* objective_or_summary: a scalar, or an object that may have a text field
Summary(v) == [t |-> v.t, s |-> v.s, hasText |-> FALSE, text |-> Undef]
SummaryObj(text) == [t |-> "object", s |-> "[object Object]", hasText |-> TRUE, text |-> text]

\* _raw_sections
SectionKinds ==
  <<"objective", "skills", "education", "experience", "projects", "certifications",
    "languages">>
NoRawSections(type) ==
  [t |-> type, objective |-> Undef, skills |-> Undef, education |-> Undef,
   experience |-> Undef, projects |-> Undef, certifications |-> Undef,
   languages |-> Undef]
EmptyRawSections == NoRawSections("object")

\* the value of a stored record none of whose fields is present ({})
EmptyObject ==
  [t |-> "object",
   objective_or_summary |-> Summary(Undef),
   skills_or_tech_stack |-> NoArr("undefined"),
   education |-> NoArr("undefined"),
   experience |-> NoArr("undefined"),
   projects |-> NoArr("undefined"),
   certifications |-> NoArr("undefined"),
   languages |-> NoArr("undefined"),
   contact_information |-> NoContact("undefined"),
   _raw_sections |-> NoRawSections("undefined"),
   _raw_text |-> Undef]

\* null, undefined, or a primitive in the place of the record: every
\* property read of a primitive is undefined
NonObject(type) == [EmptyObject EXCEPT !.t = type]

(***************************************************************************)
(* normalizeParsed                                                         *)
(***************************************************************************)
\* a ?? b
Nullish(t) == t \in {"undefined", "null"}

DefaultContact == ContactInfo(Str(""), Str(""), Str(""), Str(""))

\* the record returned; reading a property of null or undefined throws
normalizeParsedValue(parsed) ==
  [t |-> "object",
   objective_or_summary |->
     IF Nullish(parsed.objective_or_summary.t) THEN Summary(Null)
     ELSE parsed.objective_or_summary,
   skills_or_tech_stack |->
     IF isArray(parsed.skills_or_tech_stack) THEN parsed.skills_or_tech_stack ELSE Arr(<<>>),
   education |-> IF isArray(parsed.education) THEN parsed.education ELSE Arr(<<>>),
   experience |-> IF isArray(parsed.experience) THEN parsed.experience ELSE Arr(<<>>),
   projects |-> IF isArray(parsed.projects) THEN parsed.projects ELSE Arr(<<>>),
   certifications |->
     IF isArray(parsed.certifications) THEN parsed.certifications ELSE Arr(<<>>),
   languages |-> IF isArray(parsed.languages) THEN parsed.languages ELSE Arr(<<>>),
   contact_information |->
     IF Nullish(parsed.contact_information.t) THEN DefaultContact
     ELSE parsed.contact_information,
   _raw_sections |->
     IF Nullish(parsed._raw_sections.t) THEN EmptyRawSections ELSE parsed._raw_sections,
   _raw_text |-> IF Nullish(parsed._raw_text.t) THEN Undef ELSE parsed._raw_text]

normalizeParsedThrows(parsed) == Nullish(parsed.t)

normalizeParsed(parsed) ==
  IF normalizeParsedThrows(parsed) THEN [kind |-> "throw", value |-> EmptyObject]
  ELSE [kind |-> "return", value |-> normalizeParsedValue(parsed)]

(***************************************************************************)
(* Helpers of the responder                                                *)
(***************************************************************************)
FALLBACK == "The resume does not contain this information."

HELP ==
  "Please ask a question about the resume. Try: 'skills', 'experience', 'education', 'projects', 'contact', or 'summary'."

\* the value of an evaluation that may throw a TypeError
Ok(text) == [ok |-> TRUE, text |-> text]
Thrown == [ok |-> FALSE, text |-> ""]

\* v.trim() of a value v that is a string unless the record is foreign-shaped
TrimOf(v) == IF v.t = "string" THEN Ok(trim(v.s)) ELSE Thrown

\* a mapped list throws when the callback throws on an element
AnyThrown(lines) == \E i \in 1..Len(lines) : ~lines[i].ok
Texts(lines) == [i \in 1..Len(lines) |-> lines[i].text]

\* formatList: null (here "") for the empty list
BoldItem(it) == "- **" \o it \o "**"
formatList(items) == join([i \in 1..Len(items) |-> BoldItem(items[i])], "\n")

\* extractSkillNames
SkillName(item) ==
  IF item.t = "string" THEN trim(item.s)
  ELSE IF item.t = "object" /\ item.name.t = "string" THEN trim(item.name.s)
  ELSE trim(JsString(item))

extractSkillNames(skillsRaw) ==
  IF ~isArray(skillsRaw) \/ Len(skillsRaw.items) = 0 THEN <<>>
  ELSE SelectSeq([i \in 1..Len(skillsRaw.items) |-> SkillName(skillsRaw.items[i])],
                 LAMBDA n : n # "")

\* rawX && rawX.trim().length > 0
RawSection(raw) ==
  IF ~Truthy(raw) THEN [kind |-> "absent", text |-> ""]
  ELSE IF raw.t # "string" THEN [kind |-> "throw", text |-> ""]
  ELSE IF Len(trim(raw.s)) > 0 THEN [kind |-> "hit", text |-> trim(raw.s)]
  ELSE [kind |-> "absent", text |-> ""]

\* one line of the experience answer
experienceLine(e) ==
  IF Nullish(e.t) THEN Thrown
  ELSE
    LET title == TrimOf(OrElse(e.f.title, OrElse(e.f.role, OrElse(e.f.position, Str("")))))
        org == TrimOf(OrElse(e.f.organization,
                             OrElse(e.f.company, OrElse(e.f.employer, Str("")))))
        start == OrElse(e.f.start_date,
                        OrElse(e.f.start_year, OrElse(e.f.from, OrElse(e.f.duration, Str("")))))
        end == OrElse(e.f.end_date, OrElse(e.f.end_year, OrElse(e.f.to, Str(""))))
        dateRange ==
          IF Truthy(start) \/ Truthy(end)
          THEN " " \o EmDash \o " " \o JsString(OrElse(start, Str("")))
               \o (IF Truthy(start) /\ Truthy(end) THEN " to " ELSE "")
               \o JsString(OrElse(end, Str("")))
          ELSE ""
        desc == OrElse(e.f.description, OrElse(e.f.details, Str("")))
        resp == e.responsibilities
        respText ==
          IF isArray(resp) /\ Len(resp.items) > 0
          THEN "\n  " \o join([i \in 1..Len(resp.items) |-> BulletDot \o " " \o resp.items[i]],
                              "\n  ")
          ELSE ""
    IN IF ~title.ok \/ ~org.ok THEN Thrown
       ELSE
         LET primary == IF title.text # "" THEN "**" \o title.text \o "**"
                        ELSE IF org.text # "" THEN "**" \o org.text \o "**" ELSE ""
             orgText == IF title.text # "" /\ org.text # "" THEN ", " \o org.text
                        ELSE IF org.text # "" THEN "**" \o org.text \o "**" ELSE ""
         IN Ok("- " \o primary \o orgText \o dateRange
               \o (IF Truthy(desc) THEN "\n  " \o JsString(desc) ELSE "") \o respText)

\* JSON.stringify of a scalar, and of an education entry (its present fields)
jsonScalar(v) ==
  IF v.t = "string" THEN "\"" \o v.s \o "\"" ELSE IF v.t = "number" THEN v.s ELSE "null"

EducationFieldOrder ==
  <<"institution", "degree", "field", "year", "details", "title", "school", "end_year">>

jsonEducation(e) ==
  IF e.t # "object" THEN jsonScalar(e)
  ELSE
    LET present == SelectSeq(EducationFieldOrder, LAMBDA n : e.f[n].t # "undefined")
    IN "{" \o join([i \in 1..Len(present) |->
                      "\"" \o present[i] \o "\":" \o jsonScalar(e.f[present[i]])], ",")
       \o "}"

\* one line of the education answer
educationLine(e) ==
  IF Nullish(e.t) THEN Thrown
  ELSE
    LET degree == TrimOf(OrElse(e.f.degree, OrElse(e.f.title, Str(""))))
        inst == TrimOf(OrElse(e.f.institution, OrElse(e.f.school, Str(""))))
        field == TrimOf(OrElse(e.f.field, Str("")))
        year == TrimOf(OrElse(e.f.year, OrElse(e.f.end_year, Str(""))))
    IN IF ~degree.ok \/ ~inst.ok \/ ~field.ok \/ ~year.ok THEN Thrown
       ELSE
         LET years == IF year.text # "" THEN " " \o EmDash \o " " \o year.text ELSE ""
             fieldText == IF field.text # "" THEN " in " \o field.text ELSE ""
         IN IF degree.text # "" /\ inst.text # ""
            THEN Ok("- **" \o degree.text \o "**" \o fieldText \o ", " \o inst.text \o years)
            ELSE IF degree.text # ""
            THEN Ok("- **" \o degree.text \o "**" \o fieldText \o years)
            ELSE IF inst.text # ""
            THEN Ok("- **" \o inst.text \o "**" \o years)
            ELSE IF Truthy(e.f.details)
            THEN Ok("- " \o JsString(e.f.details) \o years)
            ELSE Ok("- " \o jsonEducation(e))

\* one line of the projects answer
projectLine(p) ==
  IF Nullish(p.t) THEN Thrown
  ELSE
    LET title == TrimOf(OrElse(p.f.title, OrElse(p.f.name, Str(""))))
        desc == OrElse(p.f.description, OrElse(p.f.details, Str("")))
        techs == p.technologies
        techText == IF isArray(techs) /\ Len(techs.items) > 0
                    THEN " (" \o join(techs.items, ", ") \o ")" ELSE ""
    IN IF ~title.ok THEN Thrown
       ELSE IF title.text # ""
       THEN Ok("- **" \o title.text \o "**"
               \o (IF Truthy(desc) THEN " " \o EmDash \o " " \o JsString(desc) ELSE "")
               \o techText)
       ELSE IF Truthy(desc) THEN Ok("- " \o JsString(desc) \o techText)
       ELSE Ok("- " \o slice0(JsString(p), 180))

\* one line of the certifications answer (never throws)
certificationLine(it) ==
  IF it.t = "string" THEN Ok("- **" \o it.s \o "**")
  ELSE IF it.t = "object" /\ Truthy(it.title)
  THEN Ok("- **" \o JsString(it.title) \o "**"
          \o (IF Truthy(it.issued_by) THEN ", " \o JsString(it.issued_by) ELSE ""))
  ELSE IF it.t = "object" /\ Truthy(it.name)
  THEN Ok("- **" \o JsString(it.name) \o "**")
  ELSE Ok("- **" \o JsString(it) \o "**")

\* the labelled lines of the contact answer
contactParts(ci) ==
  (IF Truthy(ci.name) THEN <<"- **Name:** " \o JsString(ci.name)>> ELSE <<>>)
  \o (IF Truthy(ci.email) THEN <<"- **Email:** " \o JsString(ci.email)>> ELSE <<>>)
  \o (IF Truthy(ci.phone) THEN <<"- **Phone:** " \o JsString(ci.phone)>> ELSE <<>>)
  \o (IF Truthy(ci.location) THEN <<"- **Location:** " \o JsString(ci.location)>> ELSE <<>>)

\* the text of objective_or_summary
summaryText(s) ==
  IF s.t = "string" THEN s.s
  ELSE IF s.t = "object" /\ s.hasText THEN JsString(OrElse(s.text, Str("")))
  ELSE ""

(***************************************************************************)
(* answerFromParsedDeterministic                                           *)
(***************************************************************************)
SkillKeywords ==
  {"skill", "skills", "technical skills", "tech", "tech stack", "technologies",
   "competencies"}
ExperienceKeywords ==
  {"experience", "work", "employment", "jobs", "job", "work history", "career"}
EducationKeywords ==
  {"education", "degree", "college", "university", "qualification", "academic"}
ProjectsKeywords == {"projects", "project", "portfolio", "what projects"}
CertificationsKeywords ==
  {"certifications", "certificate", "licenses", "certification", "credentials"}
ContactKeywords == {"contact", "email", "phone", "contact information", "phone number"}
SummaryKeywords == {"summary", "about", "objective", "overview", "profile"}
LanguagesKeywords == {"languages", "language", "language skills"}

\* keywords.some((k) => q === k || q.includes(k))
someKeyword(keywords, q) == \E k \in keywords : q = k \/ includes(q, k)

isSkillQuery(q) == someKeyword(SkillKeywords, q)
isExperienceQuery(q) == someKeyword(ExperienceKeywords, q)
isEducationQuery(q) == someKeyword(EducationKeywords, q)
isProjectsQuery(q) == someKeyword(ProjectsKeywords, q)
isCertificationsQuery(q) == someKeyword(CertificationsKeywords, q)
isContactQuery(q) == someKeyword(ContactKeywords, q)
isSummaryQuery(q) == someKeyword(SummaryKeywords, q)
isLanguagesQuery(q) == someKeyword(LanguagesKeywords, q)

Return(text) == [kind |-> "return", text |-> text]
Throw == [kind |-> "throw", text |-> ""]

\* RawFirst with the reconstruction preferred to the raw text
RawFirst_StructuredFirst(raw, rest) ==
  LET r == RawSection(raw)
  IN IF r.kind = "throw" THEN Throw
     ELSE IF rest.kind = "return" /\ rest.text # FALLBACK THEN rest
     ELSE IF r.kind = "hit" THEN Return(r.text)
     ELSE rest

\* a section answered from its raw text, else by the reconstruction rest
RawFirst(raw, rest) ==
  LET r == RawSection(raw)
  IN IF r.kind = "throw" THEN Throw
     ELSE IF r.kind = "hit" THEN Return(r.text)
     ELSE rest

\* FALLBACK for the empty list, else lines.join("\n") of the mapped list
LinesAnswer(list, lines) ==
  IF ~isArray(list) \/ Len(list.items) = 0 THEN Return(FALLBACK)
  ELSE IF AnyThrown(lines) THEN Throw
  ELSE Return(join(Texts(lines), "\n"))

\* ex.map(...), ed.map(...), pr.map(...), c.map(...)
experienceLines(items) == [i \in 1..Len(items) |-> experienceLine(items[i])]
educationLines(items) == [i \in 1..Len(items) |-> educationLine(items[i])]
projectLines(items) == [i \in 1..Len(items) |-> projectLine(items[i])]
certificationLines(items) == [i \in 1..Len(items) |-> certificationLine(items[i])]

answerSkills(parsed) ==
  RawFirst(parsed._raw_sections.skills,
    LET skills == extractSkillNames(parsed.skills_or_tech_stack)
    IN IF Len(skills) = 0 THEN Return(FALLBACK)
       ELSE LET formatted == formatList(skills)
            IN IF formatted # "" THEN Return(formatted) ELSE Return(FALLBACK))

\* answerExperience without the test for the empty list
answerExperience_NoEmptyCheck(parsed) ==
  RawFirst(parsed._raw_sections.experience,
    LET lines == experienceLines(parsed.experience.items)
    IN IF AnyThrown(lines) THEN Throw ELSE Return(join(Texts(lines), "\n")))

answerExperience(parsed) ==
  RawFirst(parsed._raw_sections.experience,
           LinesAnswer(parsed.experience, experienceLines(parsed.experience.items)))

answerEducation(parsed) ==
  RawFirst(parsed._raw_sections.education,
           LinesAnswer(parsed.education, educationLines(parsed.education.items)))

answerProjects(parsed) ==
  RawFirst(parsed._raw_sections.projects,
           LinesAnswer(parsed.projects, projectLines(parsed.projects.items)))

answerCertifications(parsed) ==
  RawFirst(parsed._raw_sections.certifications,
           LinesAnswer(parsed.certifications,
                       certificationLines(parsed.certifications.items)))

answerContact(parsed) ==
  LET parts == contactParts(parsed.contact_information)
  IN IF Len(parts) = 0 THEN Return(FALLBACK) ELSE Return(join(parts, "\n"))

answerSummary(parsed) ==
  RawFirst(parsed._raw_sections.objective,
    LET text == summaryText(parsed.objective_or_summary)
    IN IF text = "" \/ trim(text) = "" THEN Return(FALLBACK) ELSE Return(trim(text)))

answerLanguages(parsed) ==
  RawFirst(parsed._raw_sections.languages,
    LET langs == parsed.languages
    IN IF ~isArray(langs) \/ Len(langs.items) = 0 THEN Return(FALLBACK)
       ELSE LET formatted ==
                  formatList([i \in 1..Len(langs.items) |-> JsString(langs.items[i])])
            IN IF formatted # "" THEN Return(formatted) ELSE Return(FALLBACK))

\* answeringIntent with the languages block moved before the contact block
answeringIntent_LanguagesBeforeContact(q) ==
  IF isSkillQuery(q) THEN "skills"
  ELSE IF isExperienceQuery(q) THEN "experience"
  ELSE IF isEducationQuery(q) THEN "education"
  ELSE IF isProjectsQuery(q) THEN "projects"
  ELSE IF isCertificationsQuery(q) THEN "certifications"
  ELSE IF isLanguagesQuery(q) THEN "languages"
  ELSE IF isContactQuery(q) THEN "contact"
  ELSE IF isSummaryQuery(q) THEN "summary"
  ELSE IF Len(q) = 0 THEN "help"
  ELSE "none"

\* answeringIntent without the block for the empty query
answeringIntent_NoEmptyCheck(q) ==
  IF isSkillQuery(q) THEN "skills"
  ELSE IF isExperienceQuery(q) THEN "experience"
  ELSE IF isEducationQuery(q) THEN "education"
  ELSE IF isProjectsQuery(q) THEN "projects"
  ELSE IF isCertificationsQuery(q) THEN "certifications"
  ELSE IF isContactQuery(q) THEN "contact"
  ELSE IF isSummaryQuery(q) THEN "summary"
  ELSE IF isLanguagesQuery(q) THEN "languages"
  ELSE "none"

\* the if-block of the function that returns for query q: the first of the
\* eight intent blocks whose flag is set, else the empty-query block, else
\* the final return
answeringIntent(q) ==
  IF isSkillQuery(q) THEN "skills"
  ELSE IF isExperienceQuery(q) THEN "experience"
  ELSE IF isEducationQuery(q) THEN "education"
  ELSE IF isProjectsQuery(q) THEN "projects"
  ELSE IF isCertificationsQuery(q) THEN "certifications"
  ELSE IF isContactQuery(q) THEN "contact"
  ELSE IF isSummaryQuery(q) THEN "summary"
  ELSE IF isLanguagesQuery(q) THEN "languages"
  ELSE IF Len(q) = 0 THEN "help"
  ELSE "none"

\* answerOfIntent with the help message as the final return
answerOfIntent_HelpForUnknown(parsed, intent) ==
  CASE intent = "skills" -> answerSkills(parsed)
    [] intent = "experience" -> answerExperience(parsed)
    [] intent = "education" -> answerEducation(parsed)
    [] intent = "projects" -> answerProjects(parsed)
    [] intent = "certifications" -> answerCertifications(parsed)
    [] intent = "contact" -> answerContact(parsed)
    [] intent = "summary" -> answerSummary(parsed)
    [] intent = "languages" -> answerLanguages(parsed)
    [] OTHER -> Return(HELP)

\* what the block of an intent returns
answerOfIntent(parsed, intent) ==
  CASE intent = "skills" -> answerSkills(parsed)
    [] intent = "experience" -> answerExperience(parsed)
    [] intent = "education" -> answerEducation(parsed)
    [] intent = "projects" -> answerProjects(parsed)
    [] intent = "certifications" -> answerCertifications(parsed)
    [] intent = "contact" -> answerContact(parsed)
    [] intent = "summary" -> answerSummary(parsed)
    [] intent = "languages" -> answerLanguages(parsed)
    [] intent = "help" -> Return(HELP)
    [] OTHER -> Return(FALLBACK)

\* the result of the function, with the block that produced it
answerFromParsedDeterministic(parsed, q) ==
  LET intent == answeringIntent(q)
      a == answerOfIntent(parsed, intent)
  IN [kind |-> a.kind, text |-> a.text, intent |-> intent]

(***************************************************************************)
(* Bounded inputs: stored records, questions, replies of the collaborator  *)
(***************************************************************************)
\* the longest list of a stored record
MaxEntries == 2

\* n elements, taken in turn from a pool
Cycle(pool, n) == [i \in 1..n |-> pool[((i - 1) % Len(pool)) + 1]]

\* the same with the last element replaced by a foreign one
CycleEndingWith(pool, n, last) ==
  [i \in 1..n |-> IF i = n THEN last ELSE pool[((i - 1) % Len(pool)) + 1]]

SkillPool == <<Item(Str("Python")), Item(Str(" Go ")), Item(Str("SQL"))>>
ExperiencePool ==
  <<ExperienceEntry(Str("Acme Co"), Str("Engineer"), Str("2019 - Present"),
                    Arr(<<"Built X", "Shipped Y">>), Undef),
    ExperienceEntry(Str("Initech"), Undef, Undef, NoArr("undefined"), Str("Contract work"))>>
EducationPool ==
  <<EducationEntry(Str("MIT"), Str("BSc"), Str("Physics"), Str("2015"), Undef),
    EducationEntry(Undef, Undef, Undef, Str("2011"), Str("High school 2011"))>>
ProjectPool ==
  <<ProjectEntry(Str("Chatbot"), Str("Resume Q&A"), Arr(<<"React", "Go">>), Undef),
    ProjectEntry(Undef, Str("A parser"), NoArr("undefined"), Undef)>>
CertificationPool == <<Item(Str("AWS Certified")), Item(Str("CKA"))>>
LanguagePool == <<Item(Str("English")), Item(Str("Tamil"))>>

\* the structured fields as the parsers of the repository write them
WellFormed(n) ==
  [EmptyObject EXCEPT
     !.objective_or_summary = IF n = 0 THEN Summary(Undef) ELSE Summary(Str(" Backend engineer ")),
     !.skills_or_tech_stack = Arr(Cycle(SkillPool, n)),
     !.education = Arr(Cycle(EducationPool, n)),
     !.experience = Arr(Cycle(ExperiencePool, n)),
     !.projects = Arr(Cycle(ProjectPool, n)),
     !.certifications = Arr(Cycle(CertificationPool, n)),
     !.languages = Arr(Cycle(LanguagePool, n)),
     !.contact_information =
       IF n = 0 THEN DefaultContact
       ELSE ContactInfo(Str("Jane Doe"), Str("jane@x.com"), Str(""), Str(""))]

\* lists whose last entry is null
NullEntries(n) ==
  [WellFormed(n) EXCEPT
     !.skills_or_tech_stack = Arr(CycleEndingWith(SkillPool, n, Item(Null))),
     !.education = Arr(CycleEndingWith(EducationPool, n, EducationScalar(Null))),
     !.experience = Arr(CycleEndingWith(ExperiencePool, n, ExperienceScalar(Null))),
     !.projects = Arr(CycleEndingWith(ProjectPool, n, ProjectScalar(Null))),
     !.certifications = Arr(CycleEndingWith(CertificationPool, n, Item(Null))),
     !.languages = Arr(CycleEndingWith(LanguagePool, n, Item(Null))),
     !.contact_information = NoContact("object")]

\* lists whose last entry is an object with fields that are not strings
NonStringFields(n) ==
  [WellFormed(n) EXCEPT
     !.objective_or_summary = SummaryObj(Str("Data analyst")),
     !.skills_or_tech_stack =
       Arr(CycleEndingWith(SkillPool, n, ItemObj(Str(" Rust "), Undef, Undef))),
     !.education =
       Arr(CycleEndingWith(EducationPool, n,
             EducationEntry(Str("MIT"), Str("BSc"), Undef, Num("2015"), Undef))),
     !.experience =
       Arr(CycleEndingWith(ExperiencePool, n,
             ExperienceEntry(Num("7"), Undef, Undef, NoArr("undefined"), Undef))),
     !.projects =
       Arr(CycleEndingWith(ProjectPool, n,
             ProjectEntry(Num("7"), Undef, NoArr("undefined"), Undef))),
     !.certifications =
       Arr(CycleEndingWith(CertificationPool, n, ItemObj(Undef, Str("PMP"), Str("PMI")))),
     !.languages = Arr(CycleEndingWith(LanguagePool, n, Item(Num("7")))),
     !.contact_information = NoContact("string")]

\* lists whose last entry is a string or a number instead of an object
ScalarEntries(n) ==
  [WellFormed(n) EXCEPT
     !.objective_or_summary = SummaryObj(Undef),
     !.skills_or_tech_stack = Arr(CycleEndingWith(SkillPool, n, Item(Str("  ")))),
     !.education = Arr(CycleEndingWith(EducationPool, n, EducationScalar(Str("PhD")))),
     !.experience = Arr(CycleEndingWith(ExperiencePool, n, ExperienceScalar(Num("7")))),
     !.projects = Arr(CycleEndingWith(ProjectPool, n, ProjectScalar(Str("Compiler")))),
     !.certifications = Arr(CycleEndingWith(CertificationPool, n, ItemObj(Undef, Undef, Undef))),
     !.languages = Arr(CycleEndingWith(LanguagePool, n, Item(Str("")))),
     !.contact_information =
       ContactInfo(Undef, Undef, Str("(555) 123-4567"), Str("linkedin.com/in/jane"))]

StructuredFields ==
  {EmptyObject}
  \cup {WellFormed(n) : n \in 0..MaxEntries}
  \cup {NullEntries(n) : n \in 1..MaxEntries}
  \cup {NonStringFields(n) : n \in 1..MaxEntries}
  \cup {ScalarEntries(n) : n \in 1..MaxEntries}

\* the raw text of a section as the segmenter stores it (lines joined by \n)
RawTextOf(kind) ==
  CASE kind = "objective" -> "Backend engineer with 5 years"
    [] kind = "skills" -> "Python, Go, SQL"
    [] kind = "education" -> "MIT\nBSc Physics 2015"
    [] kind = "experience" -> " Acme Co\nEngineer\n2019 - Present\n- Built X "
    [] kind = "projects" -> "Chatbot\nResume Q&A"
    [] kind = "certifications" -> "AWS Certified\n"
    [] OTHER -> "English, Tamil"

KindSet == {SectionKinds[i] : i \in 1..Len(SectionKinds)}

\* every section holding the same value
EveryRawSection(v) ==
  [t |-> "object", objective |-> v, skills |-> v, education |-> v, experience |-> v,
   projects |-> v, certifications |-> v, languages |-> v]

\* every section holding its text
AllRawSections ==
  [t |-> "object", objective |-> Str(RawTextOf("objective")),
   skills |-> Str(RawTextOf("skills")), education |-> Str(RawTextOf("education")),
   experience |-> Str(RawTextOf("experience")), projects |-> Str(RawTextOf("projects")),
   certifications |-> Str(RawTextOf("certifications")),
   languages |-> Str(RawTextOf("languages"))]

RawSectionsOptions ==
  {NoRawSections("undefined"), NoRawSections("null"), NoRawSections("string"),
   EmptyRawSections, AllRawSections,
   EveryRawSection(Str(" \n")), EveryRawSection(Str("")), EveryRawSection(Num("7"))}
  \cup {[EmptyRawSections EXCEPT ![k] = Str(RawTextOf(k))] : k \in KindSet}

\* the records a session can hold: what handleFileUpload stored, or any
\* other JSON value of the parsed_data column
StoredRecords ==
  {NonObject("null"), NonObject("undefined"), NonObject("string")}
  \cup {[sf EXCEPT !._raw_sections = rs] : sf \in StructuredFields, rs \in RawSectionsOptions}

\* the questions of the user
Questions ==
  {"", "  ", "skill", " Skills ", "What are the candidate's technical skills?",
   "work", "Summarize their work experience", "education", "degree",
   "projects", "What projects have they worked on?", "certifications",
   "contact", "phone number", "summary", "languages", "language skills",
   "hobbies", "Hello?", "skills and education", "email or languages",
   "project certificate"}

\* the third argument of answerFromParsed
ResumeTexts == {Undef, Str(""), Str("Jane Doe\nSkills\nPython, Go, SQL")}

\* what response.text() of the model can be
GeminiTexts ==
  {" \n", " - Python\n- Go\n", "The resume does not contain this information."}

(***************************************************************************)
(* answerFromParsed as a process: the call runs to the await of            *)
(* generateGeminiResponse or to its end; the reply of the collaborator     *)
(* resumes it                                                              *)
(***************************************************************************)
VARIABLES
  geminiAvailable,   \* import.meta.env.VITE_GEMINI_API_KEY is set
  pc,                \* "idle", "awaiting" (suspended at the await), "done"
  parsedIn,          \* arguments of the call
  userQuestionRaw,
  resumeText,
  parsed,            \* locals of the call
  q,
  geminiCalls,       \* calls of generateGeminiResponse made for this question
  geminiResponse,    \* what the await produced
  result,            \* how the promise of answerFromParsed settled
  apiKey,            \* import.meta.env.VITE_HUGGINGFACE_API_KEY is set
  uploadPc,          \* position of parseResumeWithLayoutLM: "idle", "fetch",
                     \* "errorText", "json", "scan", "segmented", "parsed"
  uploadText,        \* its arguments text and imageData (present or not)
  imageData,
  httpResponse,      \* what the awaits of fetch and response.json() produced
  originalText,      \* the argument and the locals of parseResumeTextFallback
  scanLines,
  scanIndex,
  currentSection,
  buffer,
  resume,
  sessions,          \* the state of App: the ids of the listed sessions,
  currentSession,    \* the id of the current session or NoSession (null),
  messages,          \* the displayed messages,
  isUploading,
  isChatLoading,
  dbSessions,        \* the rows of resume_sessions (their ids)
  dbCreated,         \* how many rows resume_sessions ever had
  dbMessages,        \* the rows of chat_messages in the order of created_at
  loadSessionsCall,  \* the call of loadSessions made by the mount effect
  loadMessagesCalls, \* the calls of loadMessages that have not returned
  uploadCall,        \* position of handleFileUpload and the session it made
  sendCall,          \* position of handleSendMessage and its currentSession
  deleteCalls,       \* the calls of handleDeleteSession that have not returned
  userEvents         \* how many handlers the user has called

responderVars ==
  <<geminiAvailable, pc, parsedIn, userQuestionRaw, resumeText, parsed, q,
    geminiCalls, geminiResponse, result>>

parserVars ==
  <<apiKey, uploadPc, uploadText, imageData, httpResponse, originalText, scanLines,
    scanIndex, currentSection, buffer, resume>>

appVars ==
  <<sessions, currentSession, messages, isUploading, isChatLoading, dbSessions,
    dbCreated, dbMessages, loadSessionsCall, loadMessagesCalls, uploadCall, sendCall,
    deleteCalls, userEvents>>

vars == <<responderVars, parserVars, appVars>>

\* useState<ResumeSession | null>(null)
NoSession == 0

NoCall == [pc |-> "idle", session |-> NoSession]

\* the useState initial values of App; nothing is in flight
AppState ==
  /\ sessions = <<>>
  /\ currentSession = NoSession
  /\ messages = <<>>
  /\ isUploading = FALSE
  /\ isChatLoading = FALSE
  /\ loadMessagesCalls = {}
  /\ uploadCall = NoCall
  /\ sendCall = NoCall
  /\ deleteCalls = {}
  /\ userEvents = 0

\* App is not mounted
NoApp ==
  /\ AppState
  /\ dbSessions = {}
  /\ dbCreated = 0
  /\ dbMessages = <<>>
  /\ loadSessionsCall = [pc |-> "none", error |-> FALSE, data |-> <<>>]

\* const parsed: ResumeData = {...} of parseResumeTextFallback
NewResume ==
  [EmptyObject EXCEPT
     !.skills_or_tech_stack = Arr(<<>>), !.education = Arr(<<>>),
     !.experience = Arr(<<>>), !.projects = Arr(<<>>),
     !.certifications = Arr(<<>>), !.languages = Arr(<<>>),
     !.contact_information = DefaultContact]

NoHttp == [kind |-> "none", json |-> Null]

\* no call of parseResumeWithLayoutLM is in progress
ParserIdle ==
  /\ uploadPc = "idle"
  /\ uploadText = ""
  /\ imageData = FALSE
  /\ httpResponse = NoHttp
  /\ originalText = ""
  /\ scanLines = <<>>
  /\ scanIndex = 0
  /\ currentSection = ""
  /\ buffer = <<>>
  /\ resume = NewResume

NoResponse == [kind |-> "none", text |-> ""]
NoResult == [kind |-> "none", text |-> "", intent |-> "none", via |-> "none"]

\* tryGemini without the test of the resume text
tryGemini_IgnoresText(available, text) == available

\* isGeminiAvailable() && resumeText
tryGemini(available, text) == available /\ Truthy(text)

\* return answerFromParsedDeterministic(parsed, q)
deterministicResult(p, query) ==
  LET a == answerFromParsedDeterministic(p, query)
  IN [kind |-> a.kind, text |-> a.text, intent |-> a.intent, via |-> "deterministic"]

\* afterGemini without the catch around the await
afterGemini_NoCatch(p, query, response) ==
  IF response.kind = "rejected"
  THEN [kind |-> "throw", text |-> "", intent |-> "none", via |-> "gemini"]
  ELSE IF response.kind = "text" /\ response.text # ""
  THEN [kind |-> "return", text |-> response.text, intent |-> "none", via |-> "gemini"]
  ELSE deterministicResult(p, query)

\* the rest of answerFromParsed once the await has produced response
afterGemini(p, query, response) ==
  IF response.kind = "text" /\ response.text # ""
  THEN [kind |-> "return", text |-> response.text, intent |-> "none", via |-> "gemini"]
  ELSE deterministicResult(p, query)

Init ==
  /\ geminiAvailable \in BOOLEAN
  /\ pc = "idle"
  /\ parsedIn = EmptyObject
  /\ userQuestionRaw = ""
  /\ resumeText = Undef
  /\ parsed = EmptyObject
  /\ q = ""
  /\ geminiCalls = 0
  /\ geminiResponse = NoResponse
  /\ result = NoResult
  /\ apiKey = FALSE
  /\ ParserIdle
  /\ NoApp

\* answerFromParsed(parsedIn, userQuestionRaw, resumeText), up to its first
\* suspension or its end
answerFromParsed(p, question, text) ==
  /\ pc = "idle"
  /\ parsedIn' = p
  /\ userQuestionRaw' = question
  /\ resumeText' = text
  /\ geminiResponse' = NoResponse
  /\ LET n == normalizeParsed(p)
     IN IF n.kind = "throw"
        THEN /\ parsed' = EmptyObject
             /\ q' = ""
             /\ geminiCalls' = 0
             /\ result' = [kind |-> "throw", text |-> "", intent |-> "none",
                           via |-> "normalizeParsed"]
             /\ pc' = "done"
        ELSE /\ parsed' = n.value
             /\ q' = toLowerCase(trim(question))
             /\ IF tryGemini(geminiAvailable, text)
                THEN /\ geminiCalls' = 1
                     /\ result' = NoResult
                     /\ pc' = "awaiting"
                ELSE /\ geminiCalls' = 0
                     /\ result' = deterministicResult(n.value, q')
                     /\ pc' = "done"
  /\ UNCHANGED geminiAvailable
  /\ UNCHANGED <<parserVars, appVars>>

\* the await resumes with response and answerFromParsed runs to its end
Resume(response) ==
  /\ pc = "awaiting"
  /\ geminiResponse' = response
  /\ result' = afterGemini(parsed, q, response)
  /\ pc' = "done"
  /\ UNCHANGED <<geminiAvailable, parsedIn, userQuestionRaw, resumeText, parsed, q,
                 geminiCalls>>
  /\ UNCHANGED <<parserVars, appVars>>

\* model.generateContent resolved: generateGeminiResponse returns text.trim()
generateContentResolves(text) == Resume([kind |-> "text", text |-> trim(text)])

\* model.generateContent (or response.text()) failed: the catch of
\* generateGeminiResponse returns null
generateContentRejects == Resume([kind |-> "null", text |-> ""])

\* generateGeminiResponse itself rejected (a throw outside its try block):
\* the catch of answerFromParsed falls through
generateGeminiResponseRejects == Resume([kind |-> "rejected", text |-> ""])

\* the caller (handleSendMessage) takes the settled promise and the frame of
\* the call is gone; the next question can be asked
TakeAnswer ==
  /\ pc = "done"
  /\ pc' = "idle"
  /\ parsedIn' = EmptyObject
  /\ userQuestionRaw' = ""
  /\ resumeText' = Undef
  /\ parsed' = EmptyObject
  /\ q' = ""
  /\ geminiCalls' = 0
  /\ geminiResponse' = NoResponse
  /\ result' = NoResult
  /\ UNCHANGED geminiAvailable
  /\ UNCHANGED <<parserVars, appVars>>

\* handleSendMessage asks a question about the record of the session
Ask ==
  /\ pc = "idle"
  /\ \E p \in StoredRecords, question \in Questions, text \in ResumeTexts :
       answerFromParsed(p, question, text)

Next ==
  \/ Ask
  \/ \E text \in GeminiTexts : generateContentResolves(text)
  \/ generateContentRejects
  \/ generateGeminiResponseRejects
  \/ TakeAnswer

Spec == Init /\ [][Next]_vars

\* the event loop runs every continuation that is ready; nothing obliges the
\* collaborator to reply
FairSpec == Spec /\ WF_vars(TakeAnswer)

(***************************************************************************)
(* Properties of the responder                                             *)
(***************************************************************************)
\* the eight intents in the order the specification fixes
IntentOrder ==
  <<"skills", "experience", "education", "projects", "certifications", "contact",
    "summary", "languages">>

KeywordsOf(intent) ==
  CASE intent = "skills" -> SkillKeywords
    [] intent = "experience" -> ExperienceKeywords
    [] intent = "education" -> EducationKeywords
    [] intent = "projects" -> ProjectsKeywords
    [] intent = "certifications" -> CertificationsKeywords
    [] intent = "contact" -> ContactKeywords
    [] intent = "summary" -> SummaryKeywords
    [] OTHER -> LanguagesKeywords

\* the query equals or contains a keyword of the intent
Matches(intent, query) == \E k \in KeywordsOf(intent) : query = k \/ includes(query, k)

\* the raw section that belongs to a section intent
SectionIntents ==
  {"skills", "experience", "education", "projects", "certifications", "summary",
   "languages"}
RawOf(p, intent) ==
  IF intent = "summary" THEN p._raw_sections["objective"] ELSE p._raw_sections[intent]

\* a call of the deterministic responder has returned or thrown
Answered == pc = "done" /\ result.via = "deterministic"

\* C1: when a section intent answers the query and the raw section of that
\* intent is non-empty after trimming, the answer is exactly the raw text
\* trimmed, whatever the structured entries are; _raw_sections.skills =
\* "Python, Go, SQL" with the query "skill" gives exactly "Python, Go, SQL".
C1_RawSectionVerbatim ==
  Answered =>
    /\ result.intent \in SectionIntents =>
         LET raw == RawOf(parsed, result.intent)
         IN (raw.t = "string" /\ trim(raw.s) # "") =>
              (result.kind = "return" /\ result.text = trim(raw.s))
    /\ (userQuestionRaw = "skill" /\ parsed._raw_sections.skills = Str("Python, Go, SQL")) =>
         (result.kind = "return" /\ result.text = "Python, Go, SQL")

\* the raw experience section (with surrounding blanks) answers "work" although
\* the record has structured experience entries
C1_Witness ==
  /\ Answered
  /\ result.intent = "experience"
  /\ parsed._raw_sections.experience = Str(RawTextOf("experience"))
  /\ Len(parsed.experience.items) = MaxEntries
  /\ result.text = "Acme Co\nEngineer\n2019 - Present\n- Built X"

\* an intent has no data at all in the record
RawBlank(raw) == Nullish(raw.t) \/ (raw.t = "string" /\ trim(raw.s) = "")
NoData(p, intent) ==
  CASE intent = "skills" ->
         RawBlank(p._raw_sections.skills) /\ Len(p.skills_or_tech_stack.items) = 0
    [] intent = "experience" ->
         RawBlank(p._raw_sections.experience) /\ Len(p.experience.items) = 0
    [] intent = "education" ->
         RawBlank(p._raw_sections.education) /\ Len(p.education.items) = 0
    [] intent = "projects" ->
         RawBlank(p._raw_sections.projects) /\ Len(p.projects.items) = 0
    [] intent = "certifications" ->
         RawBlank(p._raw_sections.certifications) /\ Len(p.certifications.items) = 0
    [] intent = "contact" ->
         \A v \in {p.contact_information.name, p.contact_information.email,
                   p.contact_information.phone, p.contact_information.location} :
           v \in {Undef, Null, Str("")}
    [] intent = "summary" ->
         RawBlank(p._raw_sections.objective)
         /\ p.objective_or_summary \in {Summary(Undef), Summary(Null), Summary(Str(""))}
    [] intent = "languages" ->
         RawBlank(p._raw_sections.languages) /\ Len(p.languages.items) = 0
    [] OTHER -> FALSE

FirstMatch(query) ==
  IF \E i \in 1..Len(IntentOrder) : Matches(IntentOrder[i], query)
  THEN CHOOSE i \in 1..Len(IntentOrder) :
         /\ Matches(IntentOrder[i], query)
         /\ \A j \in 1..(i - 1) : ~Matches(IntentOrder[j], query)
  ELSE 0

\* C3: the intents are tested in the order skills, experience, education,
\* projects, certifications, contact, summary, languages, and the answer is
\* the one of the first intent whose keywords the query equals or contains.
C3_FirstIntentWins ==
  (Answered /\ FirstMatch(q) # 0) =>
    LET first == IntentOrder[FirstMatch(q)]
    IN /\ result.intent = first
       /\ result.kind = answerOfIntent(parsed, first).kind
       /\ result.text = answerOfIntent(parsed, first).text

\* a query with keywords of contact and of languages, answered by contact
C3_Witness ==
  /\ Answered
  /\ Matches("contact", q)
  /\ Matches("languages", q)
  /\ result.intent = "contact"
  /\ ~NoData(parsed, "languages")
  /\ result.kind = "return"

\* the deterministic answer for the arguments of the call
DeterministicAnswer ==
  answerFromParsedDeterministic(normalizeParsedValue(parsedIn),
                                toLowerCase(trim(userQuestionRaw)))

SameAsDeterministic ==
  /\ result.kind = DeterministicAnswer.kind
  /\ result.text = DeterministicAnswer.text

\* C4: a non-empty answer of the collaborator is returned unchanged; when the
\* collaborator returns nothing or fails, the result is the deterministic
\* answer for the same record and query; the collaborator is tried at most
\* once per query and its failure is not the failure of answerFromParsed.
C4_CollaboratorFallThrough ==
  /\ geminiCalls <= 1
  /\ (pc = "done" /\ geminiCalls = 1) =>
       IF geminiResponse.kind = "text" /\ geminiResponse.text # ""
       THEN result.kind = "return" /\ result.text = geminiResponse.text
       ELSE SameAsDeterministic

\* the collaborator failed and the caller got the deterministic answer
C4_Witness ==
  /\ pc = "done"
  /\ geminiCalls = 1
  /\ geminiResponse.kind = "rejected"
  /\ result.kind = "return"
  /\ result.text = DeterministicAnswer.text

\* C5: the wait for the collaborator is bounded: a call suspended at the
\* await eventually completes, also when the collaborator never replies.
C5_BoundedWait == (pc = "awaiting") ~> (pc = "done")

\* a non-empty resume text was supplied
TextSupplied == resumeText.t = "string" /\ resumeText.s # ""

\* C6: the collaborator is called only when it is configured and a non-empty
\* resume text is supplied; otherwise it is never called and the result is
\* the deterministic answer.
C6_CollaboratorOnlyWhenConfigured ==
  /\ (geminiCalls > 0 \/ pc = "awaiting" \/ geminiResponse # NoResponse) =>
       (geminiAvailable /\ TextSupplied)
  /\ (pc = "done" /\ ~(geminiAvailable /\ TextSupplied)) =>
       /\ geminiCalls = 0
       /\ result.via # "gemini"
       /\ result.via = "deterministic" => SameAsDeterministic
       /\ result.via = "normalizeParsed" => normalizeParsedThrows(parsedIn)

\* the collaborator is configured, the text is empty, and it was not called
C6_Witness ==
  /\ pc = "done"
  /\ geminiAvailable
  /\ resumeText = Str("")
  /\ geminiCalls = 0
  /\ result.via = "deterministic"
  /\ result.kind = "return"

C8_HelpNamesAllIntents ==
  (Answered /\ result.intent = "help") =>
    \A i \in 1..Len(IntentOrder) : includes(result.text, IntentOrder[i])

\* C9: a non-empty query that contains no keyword of any intent is answered
\* with exactly the not-found sentinel, for every record.
C9_UnknownQuerySentinel ==
  (Answered /\ toLowerCase(trim(userQuestionRaw)) # ""
   /\ FirstMatch(toLowerCase(trim(userQuestionRaw))) = 0) =>
    /\ result.kind = "return"
    /\ result.text = "The resume does not contain this information."

\* "Hello?" on a record that has data in every section
C9_Witness ==
  /\ Answered
  /\ userQuestionRaw = "Hello?"
  /\ parsed._raw_sections = AllRawSections
  /\ Len(parsed.skills_or_tech_stack.items) > 0
  /\ result.text = FALLBACK

\* C10: answerFromParsed ends with a non-empty answer string and never
\* throws, for every query and every stored record that is an object,
\* whatever the shape of its fields and list entries.
C10_NeverThrows ==
  (pc = "done" /\ parsedIn.t = "object") => (result.kind = "return" /\ result.text # "")

(***************************************************************************)
(* Regular expressions of the parsers (src/lib/layoutlmParser.ts and       *)
(* src/lib/resumeParser.ts).  A pattern is a sequence of items: a          *)
(* character class with a greedy quantifier {lo,hi}, a word boundary \b,   *)
(* or an anchor ^ or $.  An optional group or an alternation is a          *)
(* sequence of patterns in the order in which the backtracking matcher     *)
(* tries them.  The documents of the model are ASCII.                      *)
(***************************************************************************)
CharsOf(str) == {CharAt(str, i) : i \in 1..Len(str)}

DigitChars == CharsOf("0123456789")
LetterChars == CharsOf(UpperChars) \cup CharsOf(LowerChars)
WordChars == LetterChars \cup DigitChars \cup {"_"}
SpaceChars == {" ", "\n", "\t"}

Cls(chars, lo, hi) == [k |-> "class", cls |-> chars, lo |-> lo, hi |-> hi, str |-> ""]
WordBoundary == [k |-> "boundary", cls |-> {}, lo |-> 0, hi |-> 0, str |-> ""]
AtStart == [k |-> "start", cls |-> {}, lo |-> 0, hi |-> 0, str |-> ""]
AtEnd == [k |-> "end", cls |-> {}, lo |-> 0, hi |-> 0, str |-> ""]

\* a literal string
Lit(str) == <<[k |-> "literal", cls |-> {}, lo |-> 0, hi |-> 0, str |-> str]>>

\* the quantifiers ?, + and *
Opt(chars) == Cls(chars, 0, 1)
Plus(chars, s) == Cls(chars, 1, Len(s))
Star(chars, s) == Cls(chars, 0, Len(s))

\* \b at position pos of s (between pos - 1 and pos)
IsBoundary(s, pos) ==
  LET before == pos > 1 /\ CharAt(s, pos - 1) \in WordChars
      after == pos <= Len(s) /\ CharAt(s, pos) \in WordChars
  IN before # after

\* the number of characters of the class at pos, at most cap
Run(s, pos, chars, cap) ==
  LET most == IF cap < Len(s) - pos + 1 THEN cap ELSE Len(s) - pos + 1
      runs == {n \in 0..most : \A j \in 0..(n - 1) : CharAt(s, pos + j) \in chars}
  IN CHOOSE n \in runs : \A m \in runs : m <= n

\* the position after the match of the items k.. of pat that the matcher
\* finds first at pos, 0 when there is none: the greatest number of
\* repetitions of item k after which the rest of the pattern matches
RECURSIVE MatchFrom(_, _, _, _)
MatchFrom(s, pos, pat, k) ==
  IF k > Len(pat) THEN pos
  ELSE IF pat[k].k = "boundary"
  THEN IF IsBoundary(s, pos) THEN MatchFrom(s, pos, pat, k + 1) ELSE 0
  ELSE IF pat[k].k = "start"
  THEN IF pos = 1 THEN MatchFrom(s, pos, pat, k + 1) ELSE 0
  ELSE IF pat[k].k = "end"
  THEN IF pos = Len(s) + 1 THEN MatchFrom(s, pos, pat, k + 1) ELSE 0
  ELSE IF pat[k].k = "literal"
  THEN IF pos + Len(pat[k].str) - 1 <= Len(s)
          /\ SubSeq(s, pos, pos + Len(pat[k].str) - 1) = pat[k].str
       THEN MatchFrom(s, pos + Len(pat[k].str), pat, k + 1)
       ELSE 0
  ELSE LET Greatest(ends, counts) ==
             IF counts = {} THEN 0
             ELSE ends[CHOOSE c \in counts : \A d \in counts : d <= c]
           Rest(ends) == Greatest(ends, {c \in DOMAIN ends : ends[c] # 0})
       IN Rest([c \in pat[k].lo..Run(s, pos, pat[k].cls, pat[k].hi) |->
                  MatchFrom(s, pos + c, pat, k + 1)])

\* the same for a sequence of alternatives
RECURSIVE MatchAlts(_, _, _, _)
MatchAlts(s, pos, alts, a) ==
  IF a > Len(alts) THEN 0
  ELSE LET OrNext(e) == IF e # 0 THEN e ELSE MatchAlts(s, pos, alts, a + 1)
       IN OrNext(MatchFrom(s, pos, alts[a], 1))

\* the leftmost match: its first position and the position after it
FirstMatchAt(s, alts) ==
  LET At(ends, start) == [start |-> start, end |-> ends[start]]
      Leftmost(ends, starts) ==
        IF starts = {} THEN [start |-> 0, end |-> 0]
        ELSE At(ends, CHOOSE pos \in starts : \A other \in starts : pos <= other)
      Found(ends) == Leftmost(ends, {pos \in DOMAIN ends : ends[pos] # 0})
  IN Found([pos \in 1..(Len(s) + 1) |-> MatchAlts(s, pos, alts, 1)])

\* regex.test(s)
Test(s, alts) == FirstMatchAt(s, alts).start # 0

\* s.match(regex)[0] for a regex that matches s
MatchText(s, alts) ==
  LET Matched(m) == SubSeq(s, m.start, m.end - 1) IN Matched(FirstMatchAt(s, alts))

\* the same with the flag i: alts is written in lower case
MatchTextI(s, alts) ==
  LET Matched(m) == SubSeq(s, m.start, m.end - 1)
  IN Matched(FirstMatchAt(toLowerCase(s), alts))

\* /\b[A-Za-z0-9._%+-]+@[A-Za-z0-9.-]+\.[A-Z|a-z]{2,}\b/
emailRegex(s) ==
  << <<WordBoundary, Plus(LetterChars \cup DigitChars \cup CharsOf("._%+-"), s)>>
     \o Lit("@")
     \o <<Plus(LetterChars \cup DigitChars \cup CharsOf(".-"), s)>>
     \o Lit(".")
     \o <<Cls(LetterChars \cup {"|"}, 2, Len(s)), WordBoundary>> >>

\* /(\+?\d{1,3}[-.\s]?)?\(?\d{3}\)?[-.\s]?\d{3}[-.\s]?\d{4}/
PhoneSeparators == CharsOf("-.") \cup SpaceChars
PhoneBody ==
  <<Opt({"("}), Cls(DigitChars, 3, 3), Opt({")"}), Opt(PhoneSeparators),
    Cls(DigitChars, 3, 3), Opt(PhoneSeparators), Cls(DigitChars, 4, 4)>>
phoneRegex ==
  << <<Opt({"+"}), Cls(DigitChars, 1, 3), Opt(PhoneSeparators)>> \o PhoneBody,
     PhoneBody >>

\* /(?:https?:\/\/)?(?:www\.)?linkedin\.com\/in\/[\w-]+/gi
LinkedinScheme == Lit("http") \o <<Opt({"s"})>> \o Lit("://")
LinkedinPath(s) == Lit("linkedin.com/in/") \o <<Plus(WordChars \cup {"-"}, s)>>
linkedinRegex(s) ==
  << LinkedinScheme \o Lit("www.") \o LinkedinPath(s),
     LinkedinScheme \o LinkedinPath(s),
     Lit("www.") \o LinkedinPath(s),
     LinkedinPath(s) >>

(***************************************************************************)
(* Array and string helpers of the parsers.  The glyphs outside ASCII that *)
(* the character classes of the source list (bullet, middle dot, en and em *)
(* dash) cannot occur in the ASCII documents of the model and are left out *)
(* of the classes.                                                         *)
(***************************************************************************)
\* String.prototype.split on a separator that is one character of seps
split(s, seps) ==
  LET \* the k-th separator; position 0 before the text and Len(s) + 1 after it
      cut(cuts, k) ==
        IF k = 0 THEN 0
        ELSE IF k > Cardinality(cuts) THEN Len(s) + 1
        ELSE CHOOSE pos \in cuts : Cardinality({c \in cuts : c < pos}) = k - 1
      Piece(from, to) == SubSeq(s, from + 1, to - 1)
      Pieces(cuts) ==
        [k \in 1..(Cardinality(cuts) + 1) |-> Piece(cut(cuts, k - 1), cut(cuts, k))]
  IN Pieces({pos \in 1..Len(s) : CharAt(s, pos) \in seps})

\* String.prototype.startsWith
startsWith(s, k) == Len(k) <= Len(s) /\ SubSeq(s, 1, Len(k)) = k

\* s.replace(regex, '') for a regex without the flag g
ReplaceFirst(s, alts) ==
  LET Without(m) == IF m.start = 0 THEN s
                    ELSE SubSeq(s, 1, m.start - 1) \o SubSeq(s, m.end, Len(s))
  IN Without(FirstMatchAt(s, alts))

\* the elements of a Set built by add() in the order of items
RECURSIVE Unique(_)
Unique(items) ==
  IF Len(items) = 0 THEN <<>>
  ELSE LET Add(front, last) ==
             IF \E i \in 1..Len(front) : front[i] = last THEN front
             ELSE Append(front, last)
       IN Add(Unique(SubSeq(items, 1, Len(items) - 1)), items[Len(items)])

\* the concatenation of a sequence of sequences
RECURSIVE Flatten(_)
Flatten(seqs) == IF Len(seqs) = 0 THEN <<>> ELSE Head(seqs) \o Flatten(Tail(seqs))

\* lines.filter(line => line.trim())
NonBlank(lines) == SelectSeq(lines, LAMBDA line : trim(line) # "")

\* /^[A-Z\s:]+$/
AllCapsRegex(s) ==
  << <<AtStart, Plus(CharsOf(UpperChars) \cup SpaceChars \cup {":"}, s), AtEnd>> >>

\* /^[-•·\d.)\s]+/
LeadingMarksRegex(s) ==
  << <<AtStart, Plus({"-", ".", ")"} \cup DigitChars \cup SpaceChars, s)>> >>

(***************************************************************************)
(* extractSkills                                                           *)
(***************************************************************************)
SkillTechKeywords ==
  {"javascript", "typescript", "python", "java", "c++", "c#", "php", "ruby", "go",
   "rust", "swift", "kotlin", "react", "angular", "vue", "node", "express", "django",
   "flask", "spring", "laravel", "rails", "html", "css", "sass", "scss", "less",
   "bootstrap", "tailwind", "material-ui", "sql", "mysql", "postgresql", "mongodb",
   "redis", "elasticsearch", "oracle", "aws", "azure", "gcp", "docker", "kubernetes",
   "jenkins", "git", "github", "gitlab", "linux", "windows", "macos", "unix", "agile",
   "scrum", "devops", "ci/cd", "microservices", "rest", "graphql", "api"}

NonSkillWords == {"and", "or", "the", "with", "using", "experience", "years", "proficient"}
MoreNonSkillWords == NonSkillWords \cup {"skills", "technical"}

\* a line that looks like a section header is skipped
LooksLikeHeader(line) == Len(line) < 30 /\ Test(line, AllCapsRegex(line))

\* line.split(/[,|•·\n\t]/) of every line that is not skipped
SkillParts(lines) ==
  Flatten([i \in 1..Len(lines) |->
             IF LooksLikeHeader(lines[i]) THEN <<>>
             ELSE split(lines[i], {",", "|", "\n", "\t"})])

\* part.trim().replace(/^[-•·\d.)\s]+/, '').trim()
CleanPart(part) ==
  LET t == trim(part) IN trim(ReplaceFirst(t, LeadingMarksRegex(t)))

\* part.replace(/^[-•·\d.)\s]+/, '').trim() of the second pass
CleanPartLoose(part) == trim(ReplaceFirst(part, LeadingMarksRegex(part)))

\* the test of the first pass
IsSkill(trimmed) ==
  LET lowerTrimmed == toLowerCase(trimmed)
  IN /\ Len(trimmed) > 1 /\ Len(trimmed) < 100
     /\ \/ \E keyword \in SkillTechKeywords :
             includes(lowerTrimmed, keyword) \/ includes(keyword, lowerTrimmed)
        \/ Len(trimmed) > 2 /\ lowerTrimmed \notin NonSkillWords

\* the test of the second pass
IsLooseSkill(trimmed) ==
  LET lowerTrimmed == toLowerCase(trimmed)
  IN /\ Len(trimmed) > 1 /\ Len(trimmed) < 50
     /\ lowerTrimmed \notin MoreNonSkillWords
     /\ ~Test(lowerTrimmed, << <<AtStart, Plus(DigitChars, lowerTrimmed), AtEnd>> >>)

\* the Set skills after the first pass
StrictSkills(lines) ==
  LET parts == SkillParts(lines)
  IN Unique(SelectSeq([i \in 1..Len(parts) |-> CleanPart(parts[i])], IsSkill))

\* the array allSkills of the second pass
LooseSkills(lines) ==
  LET parts == SkillParts(lines)
  IN SelectSeq([i \in 1..Len(parts) |-> CleanPartLoose(parts[i])], IsLooseSkill)

\* extractSkills with an array in the place of the final Set
extractSkills_NoSet(lines) ==
  LET skills == StrictSkills(lines)
  IN IF Len(skills) < 3 THEN skills \o LooseSkills(lines) ELSE skills

extractSkills(lines) ==
  LET skills == StrictSkills(lines)
  IN IF Len(skills) < 3 THEN Unique(skills \o LooseSkills(lines)) ELSE skills

(***************************************************************************)
(* extractExperience                                                       *)
(***************************************************************************)
Months ==
  <<"jan", "feb", "mar", "apr", "may", "jun", "jul", "aug", "sep", "oct", "nov", "dec">>

\* /\b(Jan|...|Dec)[a-z]*\s+\d{4}\b|\b\d{4}\s*[-–—]\s*(present|current|\d{4})\b/i
\* against the lowered line
YearRangeStart(s) ==
  <<WordBoundary, Cls(DigitChars, 4, 4), Star(SpaceChars, s), Cls({"-"}, 1, 1),
    Star(SpaceChars, s)>>
datePattern(s) ==
  [m \in 1..12 |->
     <<WordBoundary>> \o Lit(Months[m])
     \o <<Star(CharsOf(LowerChars), s), Plus(SpaceChars, s), Cls(DigitChars, 4, 4),
          WordBoundary>>]
  \o << YearRangeStart(s) \o Lit("present") \o <<WordBoundary>>,
        YearRangeStart(s) \o Lit("current") \o <<WordBoundary>>,
        YearRangeStart(s) \o <<Cls(DigitChars, 4, 4), WordBoundary>> >>

\* /^[-•·]\s*/
bulletRegex(s) == << <<AtStart, Cls({"-"}, 1, 1), Star(SpaceChars, s)>> >>

\* currentEntry = {}
NoEntry == [company |-> Undef, position |-> Undef, duration |-> Undef, details |-> Undef]

\* Object.keys(currentEntry).length > 0
HasKeys(entry) ==
  \E k \in DOMAIN entry : entry[k].t # "undefined"

\* the loop variables of extractExperience
ExperienceStart == [entries |-> <<>>, currentEntry |-> NoEntry, responsibilities |-> <<>>]

\* currentEntry.responsibilities = [...responsibilities]; entries.push(currentEntry)
PushExperience(st) ==
  Append(st.entries,
         ExperienceEntry(st.currentEntry.company, st.currentEntry.position,
                         st.currentEntry.duration, Arr(st.responsibilities),
                         st.currentEntry.details))

\* one iteration of the loop over the lines
ExperienceStep(st, line) ==
  IF Test(toLowerCase(line), datePattern(line))
  THEN IF HasKeys(st.currentEntry)
       THEN [entries |-> PushExperience(st),
             currentEntry |-> [NoEntry EXCEPT !.duration = Str(line)],
             responsibilities |-> <<>>]
       ELSE [st EXCEPT !.currentEntry = [NoEntry EXCEPT !.duration = Str(line)]]
  ELSE IF Test(line, bulletRegex(line))
  THEN [st EXCEPT !.responsibilities =
                    Append(@, trim(ReplaceFirst(line, bulletRegex(line))))]
  ELSE IF ~Truthy(st.currentEntry.company) /\ Len(line) > 2
  THEN [st EXCEPT !.currentEntry.company = Str(line)]
  ELSE IF ~Truthy(st.currentEntry.position) /\ Len(line) > 2
  THEN [st EXCEPT !.currentEntry.position = Str(line)]
  ELSE IF Len(trim(line)) > 0
  THEN [st EXCEPT !.currentEntry.details =
                    Str(JsString(OrElse(@, Str(""))) \o " " \o line)]
  ELSE st

RECURSIVE ExperienceLoop(_, _)
ExperienceLoop(st, lines) ==
  IF Len(lines) = 0 THEN st
  ELSE ExperienceLoop(ExperienceStep(st, Head(lines)), Tail(lines))

extractExperience(lines) ==
  LET st == ExperienceLoop(ExperienceStart, lines)
  IN IF HasKeys(st.currentEntry) THEN PushExperience(st) ELSE st.entries

(***************************************************************************)
(* extractEducation                                                        *)
(***************************************************************************)
\* /\b(19|20)\d{2}\b/
yearRegex ==
  << <<WordBoundary>> \o Lit("19") \o <<Cls(DigitChars, 2, 2), WordBoundary>>,
     <<WordBoundary>> \o Lit("20") \o <<Cls(DigitChars, 2, 2), WordBoundary>> >>

NoEducation == [institution |-> Undef, degree |-> Undef, year |-> Undef, details |-> Undef]

EducationStart == [entries |-> <<>>, currentEntry |-> NoEducation]

\* entries.push(currentEntry)
PushEducation(st) ==
  Append(st.entries,
         EducationEntry(st.currentEntry.institution, st.currentEntry.degree, Undef,
                        st.currentEntry.year, st.currentEntry.details))

EducationStep(st, line) ==
  IF Test(line, yearRegex)
  THEN [entries |-> IF HasKeys(st.currentEntry) THEN PushEducation(st) ELSE st.entries,
        currentEntry |-> [NoEducation EXCEPT !.year = Str(MatchText(line, yearRegex)),
                                             !.details = Str(line)]]
  ELSE IF ~Truthy(st.currentEntry.institution) /\ Len(line) > 3
  THEN [st EXCEPT !.currentEntry.institution = Str(line)]
  ELSE IF ~Truthy(st.currentEntry.degree) /\ Len(line) > 3
  THEN [st EXCEPT !.currentEntry.degree = Str(line)]
  ELSE IF Truthy(st.currentEntry.degree)
  THEN [st EXCEPT !.currentEntry.details =
                    Str(JsString(OrElse(@, Str(""))) \o " " \o line)]
  ELSE st

RECURSIVE EducationLoop(_, _)
EducationLoop(st, lines) ==
  IF Len(lines) = 0 THEN st
  ELSE EducationLoop(EducationStep(st, Head(lines)), Tail(lines))

extractEducation(lines) ==
  LET st == EducationLoop(EducationStart, lines)
  IN IF HasKeys(st.currentEntry) THEN PushEducation(st) ELSE st.entries

(***************************************************************************)
(* extractProjects                                                         *)
(***************************************************************************)
\* /^\d+[.)]\s/
numberedRegex(s) ==
  << <<AtStart, Plus(DigitChars, s), Cls({".", ")"}, 1, 1), Cls(SpaceChars, 1, 1)>> >>

\* /^\d{4}/
leadingYearRegex == << <<AtStart, Cls(DigitChars, 4, 4)>> >>

\* /^[-•*\d.)\s]+/
ProjectMarksRegex(s) ==
  << <<AtStart, Plus({"-", "*", ".", ")"} \cup DigitChars \cup SpaceChars, s)>> >>

\* the alternatives of techPattern (flag i)
ProjectTechWords ==
  {"javascript", "python", "java", "react", "node", "sql", "html", "css", "typescript",
   "angular", "vue", "docker", "aws", "azure", "git", "mongodb", "postgresql", "mysql",
   "redis", "linux", "windows", "api", "rest", "graphql"}

NoProject == [name |-> Undef, description |-> Undef, technologies |-> NoArr("undefined")]

ProjectsStart == [entries |-> <<>>, currentEntry |-> NoProject]

\* currentEntry.name || currentEntry.description
HasContent(entry) == Truthy(entry.name) \/ Truthy(entry.description)

PushProject(st) ==
  Append(st.entries,
         ProjectEntry(st.currentEntry.name, st.currentEntry.description,
                      st.currentEntry.technologies, Undef))

isNewProject(trimmedLine) ==
  \/ startsWith(trimmedLine, "-")
  \/ startsWith(trimmedLine, "*")
  \/ Test(trimmedLine, numberedRegex(trimmedLine))
  \/ /\ Len(trimmedLine) < 80
     /\ ~includes(trimmedLine, ",")
     /\ ~Test(trimmedLine, leadingYearRegex)

\* trimmedLine.split(/[,|]/).map(t => t.trim()).filter(Boolean)
TechnologiesOf(trimmedLine) ==
  LET parts == split(trimmedLine, {",", "|"})
  IN SelectSeq([k \in 1..Len(parts) |-> trim(parts[k])], LAMBDA t : t # "")

ProjectStep(st, line) ==
  LET trimmedLine == trim(line)
      cur == st.currentEntry
  IN IF trimmedLine = "" THEN st
     ELSE IF isNewProject(trimmedLine)
     THEN LET cleanLine == trim(ReplaceFirst(trimmedLine, ProjectMarksRegex(trimmedLine)))
          IN [entries |-> IF HasContent(cur) THEN PushProject(st) ELSE st.entries,
              currentEntry |-> IF cleanLine # ""
                               THEN [NoProject EXCEPT !.name = Str(cleanLine)]
                               ELSE NoProject]
     ELSE IF Truthy(cur.name)
     THEN IF ~Truthy(cur.description)
          THEN [st EXCEPT !.currentEntry.description = Str(trimmedLine)]
          ELSE IF ~isArray(cur.technologies)
                  /\ \/ \E w \in ProjectTechWords : includes(toLowerCase(trimmedLine), w)
                     \/ includes(trimmedLine, ",")
                     \/ includes(trimmedLine, "|")
          THEN [st EXCEPT !.currentEntry.technologies = Arr(TechnologiesOf(trimmedLine))]
          ELSE [st EXCEPT !.currentEntry.description = Str(@.s \o " " \o trimmedLine)]
     ELSE IF Len(trimmedLine) < 100 /\ ~Test(trimmedLine, leadingYearRegex)
             /\ Len(trimmedLine) > 5
     THEN [st EXCEPT !.currentEntry = [NoProject EXCEPT !.name = Str(trimmedLine)]]
     ELSE st

RECURSIVE ProjectLoop(_, _)
ProjectLoop(st, lines) ==
  IF Len(lines) = 0 THEN st
  ELSE ProjectLoop(ProjectStep(st, Head(lines)), Tail(lines))

\* the lines kept when no structured project was found
IsProjectLike(trimmed) ==
  /\ trimmed # "" /\ Len(trimmed) > 10 /\ Len(trimmed) < 200
  /\ ~Test(trimmed, leadingYearRegex)
  /\ ~Test(trimmed, AllCapsRegex(trimmed))
  /\ ~includes(trimmed, "@")

ProjectLikeLines(lines) ==
  LET kept == SelectSeq([k \in 1..Len(lines) |-> trim(lines[k])], IsProjectLike)
  IN [k \in 1..Len(kept) |-> ProjectEntry(Str(kept[k]), Str(""), NoArr("undefined"), Undef)]

extractProjects(lines) ==
  LET st == ProjectLoop(ProjectsStart, lines)
      entries == IF HasContent(st.currentEntry) THEN PushProject(st) ELSE st.entries
  IN IF Len(entries) = 0 /\ Len(lines) > 0 THEN ProjectLikeLines(lines) ELSE entries

(***************************************************************************)
(* processSectionBuffer                                                    *)
(***************************************************************************)
\* an array of strings as a list field of the record
StringItems(items) == Arr([k \in 1..Len(items) |-> Item(Str(items[k]))])

\* if (!parsed._raw_sections) parsed._raw_sections = {}
RawSectionsOf(parsedRecord) ==
  IF Nullish(parsedRecord._raw_sections.t) THEN EmptyRawSections
  ELSE parsedRecord._raw_sections

\* processSectionBuffer storing the raw skills text only with a skill found
processSectionBuffer_RawWithSkills(parsedRecord, section, buf) ==
  LET content == join(buf, "\n")
      raw == RawSectionsOf(parsedRecord)
  IN CASE section = "objective" ->
            [parsedRecord EXCEPT !.objective_or_summary = Summary(Str(content)),
                                 !._raw_sections = [raw EXCEPT !.objective = Str(content)]]
       [] section = "skills" ->
            IF Len(extractSkills(buf)) = 0
            THEN [parsedRecord EXCEPT !._raw_sections = raw]
            ELSE [parsedRecord EXCEPT
                    !._raw_sections = [raw EXCEPT !.skills = Str(content)],
                    !.skills_or_tech_stack = StringItems(extractSkills(buf))]
       [] section = "education" ->
            [parsedRecord EXCEPT !._raw_sections = [raw EXCEPT !.education = Str(content)],
                                 !.education = Arr(extractEducation(buf))]
       [] section = "experience" ->
            [parsedRecord EXCEPT !._raw_sections = [raw EXCEPT !.experience = Str(content)],
                                 !.experience = Arr(extractExperience(buf))]
       [] section = "projects" ->
            [parsedRecord EXCEPT !._raw_sections = [raw EXCEPT !.projects = Str(content)],
                                 !.projects = Arr(extractProjects(buf))]
       [] section = "certifications" ->
            [parsedRecord EXCEPT
               !._raw_sections = [raw EXCEPT !.certifications = Str(content)],
               !.certifications = StringItems(NonBlank(buf))]
       [] section = "languages" ->
            [parsedRecord EXCEPT !._raw_sections = [raw EXCEPT !.languages = Str(content)],
                                 !.languages = StringItems(NonBlank(buf))]
       [] OTHER -> [parsedRecord EXCEPT !._raw_sections = raw]

processSectionBuffer(parsedRecord, section, buf) ==
  LET content == join(buf, "\n")
      raw == RawSectionsOf(parsedRecord)
  IN CASE section = "objective" ->
            [parsedRecord EXCEPT !.objective_or_summary = Summary(Str(content)),
                                 !._raw_sections = [raw EXCEPT !.objective = Str(content)]]
       [] section = "skills" ->
            [parsedRecord EXCEPT !._raw_sections = [raw EXCEPT !.skills = Str(content)],
                                 !.skills_or_tech_stack = StringItems(extractSkills(buf))]
       [] section = "education" ->
            [parsedRecord EXCEPT !._raw_sections = [raw EXCEPT !.education = Str(content)],
                                 !.education = Arr(extractEducation(buf))]
       [] section = "experience" ->
            [parsedRecord EXCEPT !._raw_sections = [raw EXCEPT !.experience = Str(content)],
                                 !.experience = Arr(extractExperience(buf))]
       [] section = "projects" ->
            [parsedRecord EXCEPT !._raw_sections = [raw EXCEPT !.projects = Str(content)],
                                 !.projects = Arr(extractProjects(buf))]
       [] section = "certifications" ->
            [parsedRecord EXCEPT
               !._raw_sections = [raw EXCEPT !.certifications = Str(content)],
               !.certifications = StringItems(NonBlank(buf))]
       [] section = "languages" ->
            [parsedRecord EXCEPT !._raw_sections = [raw EXCEPT !.languages = Str(content)],
                                 !.languages = StringItems(NonBlank(buf))]
       [] OTHER -> [parsedRecord EXCEPT !._raw_sections = raw]

(***************************************************************************)
(* parseResumeTextFallback: contact extraction and section headers         *)
(***************************************************************************)
sectionKeywords ==
  [objective |-> {"objective", "summary", "profile", "about", "professional summary"},
   skills |-> {"skills", "technical skills", "tech stack", "technologies", "competencies",
               "expertise", "core competencies", "technical expertise",
               "programming languages", "tools", "software"},
   education |-> {"education", "academic", "qualification", "degree", "university",
                  "college", "academic background"},
   experience |-> {"experience", "work history", "employment", "professional experience",
                   "work experience", "career", "employment history"},
   projects |-> {"projects", "personal projects", "portfolio", "project experience",
                 "key projects", "project", "side projects", "academic projects",
                 "notable projects"},
   certifications |-> {"certifications", "certificates", "licenses", "certification",
                       "credentials"},
   languages |-> {"languages", "language proficiency", "language skills",
                  "spoken languages"}]

\* Object.values(sectionKeywords).flat()
AllSectionKeywords == UNION {sectionKeywords[k] : k \in KindSet}

\* contactAfterLine without the test that the email is still empty
contactAfterLine_LaterReplaces(contact, line, index) ==
  LET lowerLine == toLowerCase(line)
      email == IF index < 5 /\ Test(line, emailRegex(line))
               THEN Str(MatchText(line, emailRegex(line))) ELSE contact.email
      phone == IF index < 5 /\ Test(line, phoneRegex) /\ ~Truthy(contact.phone)
               THEN Str(MatchText(line, phoneRegex)) ELSE contact.phone
      location == IF index < 5 /\ Test(lowerLine, linkedinRegex(line))
                     /\ ~Truthy(contact.location)
                  THEN Str(MatchTextI(line, linkedinRegex(line))) ELSE contact.location
      name == IF index = 0 /\ ~Truthy(contact.name)
                 /\ ~\E keyword \in AllSectionKeywords : includes(lowerLine, keyword)
              THEN Str(line) ELSE contact.name
  IN ContactInfo(name, email, phone, location)

\* contactAfterLine without the test that the line is the first one
contactAfterLine_NameFromAnyLine(contact, line, index) ==
  LET lowerLine == toLowerCase(line)
      email == IF index < 5 /\ Test(line, emailRegex(line)) /\ ~Truthy(contact.email)
               THEN Str(MatchText(line, emailRegex(line))) ELSE contact.email
      phone == IF index < 5 /\ Test(line, phoneRegex) /\ ~Truthy(contact.phone)
               THEN Str(MatchText(line, phoneRegex)) ELSE contact.phone
      location == IF index < 5 /\ Test(lowerLine, linkedinRegex(line))
                     /\ ~Truthy(contact.location)
                  THEN Str(MatchTextI(line, linkedinRegex(line))) ELSE contact.location
      name == IF ~Truthy(contact.name)
                 /\ ~\E keyword \in AllSectionKeywords : includes(lowerLine, keyword)
              THEN Str(line) ELSE contact.name
  IN ContactInfo(name, email, phone, location)

\* the contact fields after the line with index index (from 0) was looked at
contactAfterLine(contact, line, index) ==
  LET lowerLine == toLowerCase(line)
      email == IF index < 5 /\ Test(line, emailRegex(line)) /\ ~Truthy(contact.email)
               THEN Str(MatchText(line, emailRegex(line))) ELSE contact.email
      phone == IF index < 5 /\ Test(line, phoneRegex) /\ ~Truthy(contact.phone)
               THEN Str(MatchText(line, phoneRegex)) ELSE contact.phone
      location == IF index < 5 /\ Test(lowerLine, linkedinRegex(line))
                     /\ ~Truthy(contact.location)
                  THEN Str(MatchTextI(line, linkedinRegex(line))) ELSE contact.location
      name == IF index = 0 /\ ~Truthy(contact.name)
                 /\ ~\E keyword \in AllSectionKeywords : includes(lowerLine, keyword)
              THEN Str(line) ELSE contact.name
  IN ContactInfo(name, email, phone, location)

\* the test isHeader of one section for a line
isHeader(section, line) ==
  LET lowerLine == toLowerCase(line)
  IN \E keyword \in sectionKeywords[section] :
       \/ lowerLine = keyword
       \/ lowerLine = keyword \o ":"
       \/ startsWith(lowerLine, keyword \o ":")
       \/ startsWith(lowerLine, keyword \o " -")
       \/ startsWith(lowerLine, keyword \o " ")
       \/ /\ includes(lowerLine, keyword)
          /\ \/ Len(line) < 60
             \/ Test(line, AllCapsRegex(line))
             \/ includes(line, ":")
             \/ Len(line) < 100 /\ ~includes(line, ",") /\ ~includes(line, ".")

\* the sections, in the order of Object.entries, for which the line is a header
headerSections(line) == SelectSeq(SectionKinds, LAMBDA section : isHeader(section, line))

\* currentSection after the loop over the sections: the `continue` in the
\* body of the loop goes on with the next section, so every section for
\* which the line is a header assigns currentSection in turn
detectedSection(line) ==
  LET found == headerSections(line)
  IN IF Len(found) = 0 THEN "" ELSE found[Len(found)]

(***************************************************************************)
(* parseResumeTextFallback: the search for skills in the whole document    *)
(***************************************************************************)
\* the first index of allLines that looks like a skills header, 0 for none
RECURSIVE skillsStartIndex(_, _)
skillsStartIndex(allLines, k) ==
  IF k > Len(allLines) THEN 0
  ELSE LET lowerLine == trim(toLowerCase(allLines[k]))
       IN IF \E keyword \in sectionKeywords.skills :
               /\ includes(lowerLine, keyword)
               /\ \/ Len(allLines[k]) < 150
                  \/ lowerLine = keyword
                  \/ startsWith(lowerLine, keyword)
          THEN k
          ELSE skillsStartIndex(allLines, k + 1)

\* the line belongs to another section than skills
isNewSection(line) ==
  \E section \in KindSet \ {"skills"} :
    \E keyword \in sectionKeywords[section] :
      includes(toLowerCase(line), keyword) /\ Len(line) < 100

\* the first line after index k that is not blank, trimmed; "" for none
RECURSIVE nextNonEmpty(_, _)
nextNonEmpty(allLines, k) ==
  IF k >= Len(allLines) THEN ""
  ELSE IF trim(allLines[k + 1]) # "" THEN trim(allLines[k + 1])
  ELSE nextNonEmpty(allLines, k + 1)

\* the lines collected from index k on
RECURSIVE collectSkillsLines(_, _, _)
collectSkillsLines(allLines, k, skillsLines) ==
  IF k > Len(allLines) THEN skillsLines
  ELSE LET line == trim(allLines[k])
       IN IF line = ""
          THEN IF Len(skillsLines) > 0
                  /\ nextNonEmpty(allLines, k) # ""
                  /\ isNewSection(nextNonEmpty(allLines, k))
               THEN skillsLines
               ELSE collectSkillsLines(allLines, k + 1, skillsLines)
          ELSE IF isNewSection(line) THEN skillsLines
          ELSE collectSkillsLines(allLines, k + 1, Append(skillsLines, line))

\* techKeywords of the last resort, in the order of the list
SweepKeywords ==
  <<"javascript", "typescript", "python", "java", "c++", "c#", "php", "ruby", "go",
    "rust", "react", "angular", "vue", "node", "express", "django", "flask", "spring",
    "html", "css", "sql", "mongodb", "postgresql", "mysql", "aws", "azure", "docker",
    "kubernetes">>

\* /\bc\+\+/, /\bc#/, and new RegExp(`\\b${escapedKeyword}\\b`) otherwise
sweepRegex(keyword) ==
  IF keyword \in {"c++", "c#"} THEN << <<WordBoundary>> \o Lit(keyword) >>
  ELSE << <<WordBoundary>> \o Lit(keyword) \o <<WordBoundary>> >>

\* foundSkills
sweepSkills(text) ==
  LET lowerText == toLowerCase(text)
      present == SelectSeq(SweepKeywords,
                           LAMBDA keyword : Test(lowerText, sweepRegex(keyword)))
  IN [k \in 1..Len(present) |-> MatchTextI(text, sweepRegex(present[k]))]

\* the guard of the search without the test of the raw section
skillsMissing_SkillsOnly(parsedRecord) ==
  Len(parsedRecord.skills_or_tech_stack.items) = 0

\* the guard of the search
skillsMissing(parsedRecord) ==
  /\ Len(parsedRecord.skills_or_tech_stack.items) = 0
  /\ \/ ~Truthy(RawSectionsOf(parsedRecord).skills)
     \/ Len(trim(RawSectionsOf(parsedRecord).skills.s)) = 0

\* the record with the skills that were found
withSkills(parsedRecord, content, skills) ==
  [parsedRecord EXCEPT
     !._raw_sections = [RawSectionsOf(parsedRecord) EXCEPT !.skills = Str(content)],
     !.skills_or_tech_stack = StringItems(skills)]

\* the part of parseResumeTextFallback after the last flush
skillsFallback(parsedRecord, text) ==
  IF ~skillsMissing(parsedRecord) THEN parsedRecord
  ELSE LET allLines == split(text, {"\n"})
           start == skillsStartIndex(allLines, 1)
       IN IF start > 0
          THEN LET skillsLines == collectSkillsLines(allLines, start + 1, <<>>)
               IN IF Len(skillsLines) > 0
                  THEN withSkills(parsedRecord, join(skillsLines, "\n"),
                                  extractSkills(skillsLines))
                  ELSE parsedRecord
          ELSE LET foundSkills == sweepSkills(text)
               IN IF Len(foundSkills) > 0
                  THEN withSkills(parsedRecord, join(foundSkills, ", "), foundSkills)
                  ELSE parsedRecord

(***************************************************************************)
(* parseLayoutLMResult: the text of the model output                       *)
(***************************************************************************)
\* an element of tokens or of the output array: an object with the fields
\* word, text and label, or a string, or null
Token(word, text, label) ==
  [t |-> "object", s |-> "[object Object]", word |-> word, text |-> text, label |-> label]
TokenScalar(v) == [t |-> v.t, s |-> v.s, word |-> Undef, text |-> Undef, label |-> Undef]

\* the decoded body of the response: an object with the fields tokens and
\* text, an array, or null
JsonObject(tokens, text) ==
  [t |-> "object", tokens |-> tokens, text |-> text, items |-> <<>>]
JsonArray(items) ==
  [t |-> "array", tokens |-> NoArr("undefined"), text |-> Undef, items |-> items]
JsonNull == [t |-> "null", tokens |-> NoArr("undefined"), text |-> Undef, items |-> <<>>]

\* token.word || token.text || token.label || ''
tokenText(token) == OrElse(token.word, OrElse(token.text, OrElse(token.label, Str(""))))

\* item.word || item.text || item.label || String(item)
itemText(item) ==
  OrElse(item.word, OrElse(item.text, OrElse(item.label, Str(JsString(item)))))

\* .filter(t => t.length > 0).join(' ')
joinTexts(values) ==
  LET kept == SelectSeq(values, LAMBDA v : v.t = "string" /\ Len(v.s) > 0)
  IN join([k \in 1..Len(kept) |-> kept[k].s], " ")

\* extractedText, or a TypeError
extractedText(layoutlmOutput) ==
  IF Nullish(layoutlmOutput.t) THEN Thrown
  ELSE IF layoutlmOutput.tokens.t \notin {"undefined", "null"}
  THEN IF ~isArray(layoutlmOutput.tokens) THEN Thrown
       ELSE IF \E k \in 1..Len(layoutlmOutput.tokens.items) :
                 Nullish(layoutlmOutput.tokens.items[k].t)
       THEN Thrown
       ELSE Ok(joinTexts([k \in 1..Len(layoutlmOutput.tokens.items) |->
                            tokenText(layoutlmOutput.tokens.items[k])]))
  ELSE IF Truthy(layoutlmOutput.text)
  THEN \* a text that is no string reaches text.split of the text parser,
       \* a TypeError for the same catch
       IF layoutlmOutput.text.t = "string" THEN Ok(layoutlmOutput.text.s) ELSE Thrown
  ELSE IF layoutlmOutput.t = "array"
  THEN IF \E k \in 1..Len(layoutlmOutput.items) : Nullish(layoutlmOutput.items[k].t)
       THEN Thrown
       ELSE Ok(joinTexts([k \in 1..Len(layoutlmOutput.items) |->
                            itemText(layoutlmOutput.items[k])]))
  ELSE Ok("")

\* textToParse without the original text as the alternative
textToParse_NoOriginal(layoutlmOutput, text) ==
  LET extracted == extractedText(layoutlmOutput)
  IN IF ~extracted.ok THEN Thrown ELSE Ok(extracted.text)

\* textToParse = extractedText || originalText
textToParse(layoutlmOutput, text) ==
  LET extracted == extractedText(layoutlmOutput)
  IN IF ~extracted.ok THEN Thrown
     ELSE IF extracted.text # "" THEN Ok(extracted.text)
     ELSE Ok(text)

(***************************************************************************)
(* Bounded inputs of the parser: documents and model outputs               *)
(***************************************************************************)
Documents ==
  {"",
   " \n\t\n",
   "Jane Doe\njane@x.com, (555) 123-4567\nSkills\nPython, Go, SQL\nExperience\nAcme Co\nEngineer\n2019 - Present\n- Built X\n- Shipped Y",
   "Jane Doe\nSkills\nPython\nEducation\nMIT\nSkills\nGo",
   "Jane Doe\nTechnical Skills\n- Go, Python, Go | go\n1) and, AWS",
   "Jane Doe\nLanguage Skills\nEnglish, Tamil\nProjects\nChatbot for resumes\nReact, Go",
   "Jane Doe\n\nI write Python and C++ every day.\nAlso python scripts and Java.",
   "Jane Doe\nOver the years I have shipped software in Python and C++, for banks and insurers.",
   "Jane Doe\nBackend engineer\nBerlin\nGermany\nAvailable now\njane@x.com\nlinkedin.com/in/jane-doe",
   "Jane Doe\njane@x.com / jane.doe@mail.org\njd@mail.org, +1 555.123.4567\nhttps://www.LinkedIn.com/in/jane-doe\nlinkedin.com/in/other",
   "Skills:\nXY, Python\nCertifications\nAWS Certified\n\nLanguages\nEnglish",
   "Jane Doe\nMy software\nSkills\nPYTHON SQL",
   "Jane Doe\nExperience\nEducation\nMIT\nBSc Physics\nProjects",
   "Jane Doe\nSummary\nBackend engineer with 5 years\nEducation\nMIT\nBSc Physics\n2015 graduated\nProjects\n- Chatbot\nResume Q&A\nReact, Go"}

ModelOutputs ==
  {JsonNull,
   JsonObject(NoArr("undefined"), Undef),
   JsonObject(Arr(<<>>), Undef),
   JsonObject(NoArr("string"), Undef),
   JsonObject(Arr(<<Token(Str("Jane"), Undef, Undef), TokenScalar(Null)>>), Undef),
   JsonObject(Arr(<<Token(Str("Jane"), Undef, Undef), Token(Undef, Str("Doe"), Undef),
                    Token(Undef, Undef, Str("Skills")), Token(Undef, Undef, Undef),
                    Token(Str(""), Str("Python"), Str("B-SKILL"))>>),
              Str("ignored")),
   JsonObject(NoArr("undefined"), Str("Jane Doe\nSkills\nGo, Rust, SQL")),
   JsonObject(NoArr("undefined"), Str("")),
   JsonObject(NoArr("undefined"), Num("5")),
   JsonArray(<<>>),
   JsonArray(<<Token(Str("Jane"), Undef, Undef), TokenScalar(Str("Doe")),
               Token(Undef, Undef, Undef)>>),
   JsonArray(<<TokenScalar(Null)>>)}

(***************************************************************************)
(* parseResumeWithLayoutLM as a process: the call runs to the await of     *)
(* fetch, of response.text() or of response.json(); parseResumeTextFallback*)
(* is followed line by line                                                *)
(***************************************************************************)
\* parseResumeTextFallback starting with the section objective active
parseResumeTextFallback_StartsInObjective(text) ==
  /\ originalText' = text
  /\ scanLines' = NonBlank(split(text, {"\n"}))
  /\ scanIndex' = 0
  /\ currentSection' = "objective"
  /\ buffer' = <<>>
  /\ resume' = NewResume
  /\ uploadPc' = "scan"

\* parseResumeTextFallback(text) up to the loop over the lines
parseResumeTextFallback(text) ==
  /\ originalText' = text
  /\ scanLines' = NonBlank(split(text, {"\n"}))
  /\ scanIndex' = 0
  /\ currentSection' = ""
  /\ buffer' = <<>>
  /\ resume' = NewResume
  /\ uploadPc' = "scan"

\* one iteration of the loop over the lines
ScanLine ==
  /\ uploadPc = "scan"
  /\ scanIndex < Len(scanLines)
  /\ LET line == trim(scanLines[scanIndex + 1])
         withContact ==
           [resume EXCEPT !.contact_information = contactAfterLine(@, line, scanIndex)]
         section == detectedSection(line)
     IN IF section # ""
        THEN /\ resume' = IF Len(buffer) > 0
                          THEN processSectionBuffer(withContact, currentSection, buffer)
                          ELSE withContact
             /\ buffer' = <<>>
             /\ currentSection' = section
        ELSE /\ resume' = withContact
             /\ buffer' = IF Len(line) > 0 THEN Append(buffer, line) ELSE buffer
             /\ UNCHANGED currentSection
  /\ scanIndex' = scanIndex + 1
  /\ UNCHANGED <<apiKey, uploadPc, uploadText, imageData, httpResponse, originalText,
                 scanLines>>
  /\ UNCHANGED <<responderVars, appVars>>

\* EndOfLines without the flush of the buffer
EndOfLines_NoFlush ==
  /\ uploadPc = "scan"
  /\ scanIndex = Len(scanLines)
  /\ uploadPc' = "segmented"
  /\ UNCHANGED <<apiKey, uploadText, imageData, httpResponse, originalText, scanLines,
                 scanIndex, currentSection, buffer, resume>>
  /\ UNCHANGED <<responderVars, appVars>>

\* the flush after the loop
EndOfLines ==
  /\ uploadPc = "scan"
  /\ scanIndex = Len(scanLines)
  /\ resume' = IF Len(buffer) > 0 THEN processSectionBuffer(resume, currentSection, buffer)
               ELSE resume
  /\ uploadPc' = "segmented"
  /\ UNCHANGED <<apiKey, uploadText, imageData, httpResponse, originalText, scanLines,
                 scanIndex, currentSection, buffer>>
  /\ UNCHANGED <<responderVars, appVars>>

\* the search for skills in the whole document, and the return
SkillsFallback ==
  /\ uploadPc = "segmented"
  /\ resume' = skillsFallback(resume, originalText)
  /\ uploadPc' = "parsed"
  /\ UNCHANGED <<apiKey, uploadText, imageData, httpResponse, originalText, scanLines,
                 scanIndex, currentSection, buffer>>
  /\ UNCHANGED <<responderVars, appVars>>

\* parseResumeWithLayoutLM(text, imageData) up to its first await, or into
\* the text parser
parseResumeWithLayoutLM(text, image) ==
  /\ uploadPc = "idle"
  /\ uploadText' = text
  /\ imageData' = image
  /\ httpResponse' = NoHttp
  /\ IF apiKey /\ image
     THEN /\ uploadPc' = "fetch"
          /\ UNCHANGED <<originalText, scanLines, scanIndex, currentSection, buffer, resume>>
     ELSE parseResumeTextFallback(text)
  /\ UNCHANGED apiKey
  /\ UNCHANGED <<responderVars, appVars>>

\* fetch resolved with a response
fetchResolves(ok) ==
  /\ uploadPc = "fetch"
  /\ httpResponse' = [kind |-> IF ok THEN "ok" ELSE "notOk", json |-> Null]
  /\ uploadPc' = IF ok THEN "json" ELSE "errorText"
  /\ UNCHANGED <<apiKey, uploadText, imageData, originalText, scanLines, scanIndex,
                 currentSection, buffer, resume>>
  /\ UNCHANGED <<responderVars, appVars>>

\* fetch rejected: the catch parses the text
fetchRejects ==
  /\ uploadPc = "fetch"
  /\ httpResponse' = [kind |-> "rejected", json |-> Null]
  /\ parseResumeTextFallback(uploadText)
  /\ UNCHANGED <<apiKey, uploadText, imageData>>
  /\ UNCHANGED <<responderVars, appVars>>

\* response.text() of a response that is not ok settled: resolved, the text
\* is parsed after the warning; rejected, the catch parses the text
errorTextSettles(resolved) ==
  /\ uploadPc = "errorText"
  /\ httpResponse' = [kind |-> IF resolved THEN "notOk" ELSE "textRejected", json |-> Null]
  /\ parseResumeTextFallback(uploadText)
  /\ UNCHANGED <<apiKey, uploadText, imageData>>
  /\ UNCHANGED <<responderVars, appVars>>

\* response.json() resolved: parseLayoutLMResult(result, text); a TypeError
\* in it is caught and the text is parsed
jsonResolves(layoutlmOutput) ==
  /\ uploadPc = "json"
  /\ httpResponse' = [kind |-> "json", json |-> layoutlmOutput]
  /\ LET toParse == textToParse(layoutlmOutput, uploadText)
     IN IF toParse.ok THEN parseResumeTextFallback(toParse.text)
        ELSE parseResumeTextFallback(uploadText)
  /\ UNCHANGED <<apiKey, uploadText, imageData>>
  /\ UNCHANGED <<responderVars, appVars>>

\* response.json() rejected: the catch parses the text
jsonRejects ==
  /\ uploadPc = "json"
  /\ httpResponse' = [kind |-> "jsonRejected", json |-> Null]
  /\ parseResumeTextFallback(uploadText)
  /\ UNCHANGED <<apiKey, uploadText, imageData>>
  /\ UNCHANGED <<responderVars, appVars>>

\* handleFileUpload takes the record and the frame of the call is gone
TakeResume ==
  /\ uploadPc = "parsed"
  /\ uploadPc' = "idle"
  /\ uploadText' = ""
  /\ imageData' = FALSE
  /\ httpResponse' = NoHttp
  /\ originalText' = ""
  /\ scanLines' = <<>>
  /\ scanIndex' = 0
  /\ currentSection' = ""
  /\ buffer' = <<>>
  /\ resume' = NewResume
  /\ UNCHANGED apiKey
  /\ UNCHANGED <<responderVars, appVars>>

\* handleFileUpload parses the text of an uploaded file
Upload ==
  /\ uploadPc = "idle"
  /\ \E text \in Documents, image \in BOOLEAN : parseResumeWithLayoutLM(text, image)

ParseInit ==
  /\ geminiAvailable = FALSE
  /\ pc = "idle"
  /\ parsedIn = EmptyObject
  /\ userQuestionRaw = ""
  /\ resumeText = Undef
  /\ parsed = EmptyObject
  /\ q = ""
  /\ geminiCalls = 0
  /\ geminiResponse = NoResponse
  /\ result = NoResult
  /\ apiKey \in BOOLEAN
  /\ ParserIdle
  /\ NoApp

ParseNext ==
  \/ Upload
  \/ \E ok \in BOOLEAN : fetchResolves(ok)
  \/ fetchRejects
  \/ \E resolved \in BOOLEAN : errorTextSettles(resolved)
  \/ \E layoutlmOutput \in ModelOutputs : jsonResolves(layoutlmOutput)
  \/ jsonRejects
  \/ ScanLine
  \/ EndOfLines
  \/ SkillsFallback
  \/ TakeResume

ParseSpec == ParseInit /\ [][ParseNext]_vars

(***************************************************************************)
(* Properties of the normalizer and of the projects intent                 *)
(***************************************************************************)
\* C17: normalizeParsed never throws: for every stored value passed to it
\* (null, undefined, a non-object, an empty object, an object with missing
\* or wrongly typed fields) it returns a record.
C17_NormalizerNeverThrows ==
  (pc # "idle") => normalizeParsed(parsedIn).kind = "return"

\* a string is a string value
IsString(v) == v.t = "string"

\* C18: every record returned by normalizeParsed is in the canonical schema:
\* the six list fields are sequences, the raw-sections mapping is present,
\* and contact information carries name, email, phone and location as
\* strings, also when the contact object of the input is present but partial.
C18_CanonicalSchema ==
  (pc # "idle" /\ normalizeParsed(parsedIn).kind = "return") =>
    LET r == normalizeParsed(parsedIn).value
    IN /\ isArray(r.skills_or_tech_stack) /\ isArray(r.education)
       /\ isArray(r.experience) /\ isArray(r.projects)
       /\ isArray(r.certifications) /\ isArray(r.languages)
       /\ ~Nullish(r._raw_sections.t)
       /\ r.contact_information.t = "object"
       /\ IsString(r.contact_information.name)
       /\ IsString(r.contact_information.email)
       /\ IsString(r.contact_information.phone)
       /\ IsString(r.contact_information.location)

\* the example queries about projects of the README
ProjectQueries == {"projects", "What projects have they worked on?"}

\* C20: a query that asks about projects ("projects", "What projects have
\* they worked on?") is answered with the projects information of the
\* record: the raw projects section, else the formatted project entries,
\* else the sentinel; not with the content of another section.
C20_ProjectsQueryAnswersProjects ==
  (Answered /\ userQuestionRaw \in ProjectQueries) =>
    LET a == answerProjects(parsed)
    IN result.kind = a.kind /\ result.text = a.text

(***************************************************************************)
(* Properties of the parser                                                *)
(***************************************************************************)
\* the line with index k (from 1) of the document, as the loop sees it
LineAt(k) == trim(scanLines[k])

\* the line is a header
IsHeaderLine(k) == Len(headerSections(LineAt(k))) > 0

\* the section that is active when the line with index k is scanned: the
\* one the last header up to k made active
ActiveAt(k) ==
  LET headers == {h \in 1..k : IsHeaderLine(h)}
  IN IF headers = {} THEN ""
     ELSE detectedSection(LineAt(CHOOSE h \in headers : \A g \in headers : g <= h))

\* the body lines scanned while the section kind was active, in order
BodyLines(kind) ==
  LET indices == SelectSeq([k \in 1..Len(scanLines) |-> k],
                           LAMBDA k : ~IsHeaderLine(k) /\ ActiveAt(k) = kind)
  IN [n \in 1..Len(indices) |-> LineAt(indices[n])]

\* the raw section of a kind, "" when it is absent
RawText(kind) ==
  IF RawSectionsOf(resume)[kind].t = "string" THEN RawSectionsOf(resume)[kind].s ELSE ""

\* the segmentation of parseResumeTextFallback is finished
Segmented == uploadPc = "segmented"

\* C11: after the segmentation, the raw section of every kind is the
\* newline-joined concatenation, in original order, of all body lines that
\* were scanned while that kind was the active section; no line is lost or
\* replaced.
C11_RawSectionAllBodyLines ==
  Segmented => \A kind \in KindSet : RawText(kind) = join(BodyLines(kind), "\n")

\* C12: when a line is a header for more than one section, the section that
\* comes first in the order objective, skills, education, experience,
\* projects, certifications, languages becomes active, and no later one
\* overrides it.
C12_FirstSectionWins ==
  (uploadPc = "scan" /\ scanIndex > 0 /\ IsHeaderLine(scanIndex)) =>
    currentSection = headerSections(LineAt(scanIndex))[1]

\* no line of the document is a header
NoSectionDetected == \A k \in 1..Len(scanLines) : ~IsHeaderLine(k)

\* the skills of the record, as strings
SkillsOf(parsedRecord) ==
  [k \in 1..Len(parsedRecord.skills_or_tech_stack.items) |->
     parsedRecord.skills_or_tech_stack.items[k].s]

\* C13: when the segmenter detects no section, the sweep of the whole
\* document runs, and every technology keyword of the sweep list that is
\* present in the text as a whole word is in the skills list with the casing
\* of the text.
C13_SweepWhenNoSection ==
  (uploadPc = "parsed" /\ NoSectionDetected) =>
    \A n \in 1..Len(SweepKeywords) :
      Test(toLowerCase(originalText), sweepRegex(SweepKeywords[n])) =>
        \E k \in 1..Len(SkillsOf(resume)) :
          SkillsOf(resume)[k] = MatchTextI(originalText, sweepRegex(SweepKeywords[n]))

\* the experience buffer of the example
ExampleExperience == <<"Acme Co", "Engineer", "2019 - Present", "- Built X", "- Shipped Y">>

\* C14: an experience buffer of a company line, a position line, a date
\* range and bullet lines, in that order, yields exactly one entry, with the
\* company, the position, the duration and all bullet texts.
C14_OneExperienceEntry ==
  (Segmented /\ RawText("experience") = join(ExampleExperience, "\n")) =>
    resume.experience.items =
      <<ExperienceEntry(Str("Acme Co"), Str("Engineer"), Str("2019 - Present"),
                        Arr(<<"Built X", "Shipped Y">>), Undef)>>

\* the skills buffer that was flushed
SkillsBuffer == split(RawText("skills"), {"\n"})

\* the tokens of the skills buffer, in input order
SkillTokens ==
  LET parts == SkillParts(SkillsBuffer) IN [k \in 1..Len(parts) |-> CleanPart(parts[k])]

\* the index of the first occurrence of a token in the input, 0 for none
FirstOccurrence(token) ==
  LET at == {k \in 1..Len(SkillTokens) : SkillTokens[k] = token}
  IN IF at = {} THEN 0 ELSE CHOOSE k \in at : \A j \in at : k <= j

NoDuplicates(items) ==
  \A a, b \in 1..Len(items) : a # b => items[a] # items[b]

InInputOrder(items) ==
  \A a, b \in 1..Len(items) : a < b => FirstOccurrence(items[a]) < FirstOccurrence(items[b])

\* a skills section was extracted
SkillsExtracted == Segmented /\ RawText("skills") # ""

\* C15 as stated: the list returned by extractSkills has no string twice and
\* its elements are in the order of their first occurrence in the input,
\* also when the second pass is taken.
C15_SkillsInInputOrder ==
  SkillsExtracted =>
    NoDuplicates(SkillsOf(resume)) /\ InInputOrder(SkillsOf(resume))

\* C15 amended: the list has no string twice; it is in input order when the
\* first pass keeps three skills or more, and otherwise it is the skills of
\* the first pass in input order followed by the other tokens of the second
\* pass in input order.
C15_SkillsUniqueFirstPassFirst ==
  SkillsExtracted =>
    LET skills == SkillsOf(resume)
        first == SelectSeq(skills, IsSkill)
    IN /\ NoDuplicates(skills)
       /\ \A k \in 1..Len(skills) : FirstOccurrence(skills[k]) > 0
       /\ \/ InInputOrder(skills)
          \/ /\ Len(first) < 3
             /\ \E n \in 0..Len(skills) :
                  /\ SubSeq(skills, 1, n) = first
                  /\ InInputOrder(SubSeq(skills, 1, n))
                  /\ InInputOrder(SubSeq(skills, n + 1, Len(skills)))

\* the second pass was taken and put a later token before an earlier one
C15_Witness ==
  /\ SkillsExtracted
  /\ SkillsOf(resume) = <<"Python", "XY">>
  /\ SkillTokens = <<"XY", "Python">>

\* the first five non-blank lines
FirstFive ==
  [k \in 1..(IF Len(scanLines) < 5 THEN Len(scanLines) ELSE 5) |-> LineAt(k)]

\* the first match of a pattern in the first five lines, "" for none
FirstEmail ==
  LET hits == SelectSeq(FirstFive, LAMBDA line : Test(line, emailRegex(line)))
  IN IF Len(hits) = 0 THEN "" ELSE MatchText(hits[1], emailRegex(hits[1]))
FirstPhone ==
  LET hits == SelectSeq(FirstFive, LAMBDA line : Test(line, phoneRegex))
  IN IF Len(hits) = 0 THEN "" ELSE MatchText(hits[1], phoneRegex)
FirstProfileLink ==
  LET hits == SelectSeq(FirstFive,
                        LAMBDA line : Test(toLowerCase(line), linkedinRegex(line)))
  IN IF Len(hits) = 0 THEN "" ELSE MatchTextI(hits[1], linkedinRegex(hits[1]))

\* the document of the example
JaneDoeLines ==
  /\ Len(scanLines) >= 2
  /\ scanLines[1] = "Jane Doe"
  /\ scanLines[2] = "jane@x.com, (555) 123-4567"

\* C16: email, phone and profile link are each the first match within the
\* first five non-blank lines and nothing else; first line "Jane Doe" and
\* second line "jane@x.com, (555) 123-4567" give the name "Jane Doe", the
\* email "jane@x.com" and the phone "(555) 123-4567".
C16_ContactFromFirstFiveLines ==
  (uploadPc \in {"segmented", "parsed"}) =>
    /\ resume.contact_information.email = Str(FirstEmail)
    /\ resume.contact_information.phone = Str(FirstPhone)
    /\ resume.contact_information.location = Str(FirstProfileLink)
    /\ JaneDoeLines =>
         /\ resume.contact_information.name = Str("Jane Doe")
         /\ resume.contact_information.email = Str("jane@x.com")
         /\ resume.contact_information.phone = Str("(555) 123-4567")

\* a document with a second email address after the first, and a profile
\* link on its fifth line, has been parsed
C16_Witness ==
  /\ uploadPc = "parsed"
  /\ Len(scanLines) >= 5
  /\ resume.contact_information.email = Str("jane@x.com")
  /\ Test(LineAt(3), emailRegex(LineAt(3)))
  /\ resume.contact_information.location = Str("https://www.LinkedIn.com/in/jane-doe")
  /\ Test(LineAt(5), linkedinRegex(LineAt(5)))

\* the text the model output stands for, "" when it yields none or throws
ModelText ==
  IF httpResponse.kind = "json" /\ extractedText(httpResponse.json).ok
  THEN extractedText(httpResponse.json).text
  ELSE ""

\* the text parser is running or has returned
InTextParser == uploadPc \in {"scan", "segmented", "parsed"}

\* C19: parseResumeWithLayoutLM ends in the text parser and never rejects:
\* without API key or image, with a response that is not ok, with a request
\* or a decoding that throws, or with a model output without text, the text
\* parser runs on the original text; with a model output of an accepted
\* shape, it runs on the flattened text of the output.
C19_AlwaysTextPipeline ==
  /\ uploadPc \in {"idle", "fetch", "errorText", "json", "scan", "segmented", "parsed"}
  /\ InTextParser =>
       /\ originalText = IF ModelText # "" THEN ModelText ELSE uploadText
       /\ scanLines = NonBlank(split(originalText, {"\n"}))
       /\ (~apiKey \/ ~imageData) => httpResponse.kind = "none"
  /\ uploadPc = "parsed" => /\ isArray(resume.skills_or_tech_stack)
                            /\ resume.contact_information.t = "object"

\* a model output whose parsing throws a TypeError was caught and the
\* original text was parsed
C19_Witness ==
  /\ uploadPc = "parsed"
  /\ httpResponse.kind = "json"
  /\ ~extractedText(httpResponse.json).ok
  /\ originalText = uploadText
  /\ uploadText # ""

(***************************************************************************)
(* Properties of the skills fallback and of the segmenter                  *)
(***************************************************************************)
\* the search for skills is running on a record without skills
ScannerRuns == uploadPc = "segmented" /\ uploadPc' = "parsed" /\ skillsMissing(resume)

\* C21: the search tries the loose header and then the sweep of the whole
\* document, and the first that yields a result wins: the skills are empty
\* after the search only if neither yields a result for the document.
C21_FirstSuccessfulTierWins ==
  [][(ScannerRuns /\ SkillsOf(resume') = <<>>) => sweepSkills(originalText) = <<>>]_vars

\* the raw section of a kind in a record, "" when it is absent
RawTextIn(parsedRecord, kind) ==
  IF RawSectionsOf(parsedRecord)[kind].t = "string"
  THEN RawSectionsOf(parsedRecord)[kind].s ELSE ""

\* the lines scanned since the last header, in input order
PendingLines ==
  LET headers == {h \in 1..scanIndex : IsHeaderLine(h)}
      SinceHeader(last) == [k \in 1..(scanIndex - last) |-> LineAt(last + k)]
  IN SinceHeader(IF headers = {} THEN 0
                 ELSE CHOOSE h \in headers : \A g \in headers : g <= h)

\* the buffer was handed to the extractor of the active section, and no
\* other section was touched
Flushed ==
  /\ (buffer # <<>> /\ currentSection \in KindSet) =>
       RawTextIn(resume', currentSection) = join(buffer, "\n")
  /\ \A kind \in KindSet \ {currentSection} :
       RawTextIn(resume', kind) = RawTextIn(resume, kind)

\* one line is scanned
LineScanned == uploadPc = "scan" /\ scanIndex' = scanIndex + 1 /\ uploadPc' = "scan"

\* C22: on a header line the non-empty buffer goes to the extractor of the
\* section that was active and is cleared, the section of the header becomes
\* active and the header is in no buffer; at the end of the input the rest of
\* the buffer goes to the active section; every other line is buffered once,
\* in input order.
C22_BufferFlushedOnHeader ==
  /\ [](uploadPc \in {"scan", "segmented"} => buffer = PendingLines)
  /\ [][/\ (LineScanned /\ IsHeaderLine(scanIndex')) =>
             /\ Flushed
             /\ buffer' = <<>>
             /\ \E n \in 1..Len(headerSections(LineAt(scanIndex'))) :
                  currentSection' = headerSections(LineAt(scanIndex'))[n]
        /\ (LineScanned /\ ~IsHeaderLine(scanIndex')) =>
             /\ buffer' = Append(buffer, LineAt(scanIndex'))
             /\ currentSection' = currentSection
             /\ \A kind \in KindSet : RawTextIn(resume', kind) = RawTextIn(resume, kind)
        /\ (uploadPc = "scan" /\ uploadPc' = "segmented") => Flushed]_vars

\* a buffer was flushed on a header and another at the end of the input
C22_Witness ==
  /\ uploadPc = "segmented"
  /\ \E h \in 2..Len(scanLines) : IsHeaderLine(h) /\ ~IsHeaderLine(h - 1)
                                   /\ ActiveAt(h - 1) \in KindSet
  /\ buffer # <<>>
  /\ currentSection \in KindSet
  /\ RawText(currentSection) = join(buffer, "\n")

\* the step of the search for skills in the whole document
ScanStep == uploadPc = "segmented" /\ uploadPc' = "parsed"

\* after the segmentation there is no skill and no raw skills text
NothingFound == SkillsOf(resume) = <<>> /\ trim(RawText("skills")) = ""

\* the lines after the first loose skills header of the document
LooseLines ==
  LET allLines == split(originalText, {"\n"})
      From(start) == IF start = 0 THEN <<>>
                     ELSE collectSkillsLines(allLines, start + 1, <<>>)
  IN From(skillsStartIndex(allLines, 1))

\* C23: the search runs exactly when, after the segmentation, the skills are
\* empty and the raw skills section is empty or blank; with a raw skills
\* section that is not blank it changes neither the skills nor the raw
\* section, also when the extraction produced no skill.
C23_ScannerOnlyWhenNothingFound ==
  [][ScanStep =>
       /\ ~NothingFound =>
            /\ SkillsOf(resume') = SkillsOf(resume)
            /\ RawTextIn(resume', "skills") = RawText("skills")
       /\ (NothingFound /\ LooseLines # <<>>) =>
            RawTextIn(resume', "skills") = join(LooseLines, "\n")
       /\ (NothingFound /\ skillsStartIndex(split(originalText, {"\n"}), 1) = 0) =>
            SkillsOf(resume') = sweepSkills(originalText)]_vars

\* a skills section with text but without a skill was left as it was,
\* although a loose header with lines after it exists
C23_Witness ==
  /\ uploadPc = "parsed"
  /\ SkillsOf(resume) = <<>>
  /\ RawText("skills") = "PYTHON SQL"
  /\ LooseLines = <<"Skills", "PYTHON SQL">>

\* the first non-blank line contains a keyword of a section
FirstLineHasKeyword ==
  \E keyword \in AllSectionKeywords : includes(toLowerCase(LineAt(1)), keyword)

\* C24: the name is the first non-blank line of the document exactly when
\* that line matches no section keyword, and the empty string otherwise; no
\* later line sets or changes it, and a line accepted as the name is not a
\* section header.
C24_NameFromFirstLineOnly ==
  (uploadPc \in {"scan", "segmented", "parsed"}) =>
    /\ resume.contact_information.name =
         IF scanIndex >= 1 /\ ~FirstLineHasKeyword THEN Str(LineAt(1)) ELSE Str("")
    /\ (scanIndex >= 1 /\ resume.contact_information.name # Str("")) => ~IsHeaderLine(1)

\* the first line matched a section keyword and the name stayed empty while
\* later lines without a keyword were scanned
C24_Witness ==
  /\ uploadPc = "parsed"
  /\ Len(scanLines) >= 2
  /\ FirstLineHasKeyword
  /\ \E k \in 2..Len(scanLines) :
       ~\E keyword \in AllSectionKeywords : includes(toLowerCase(LineAt(k)), keyword)
  /\ resume.contact_information.name = Str("")

\* the sections that a header of the document made active
DetectedKinds ==
  {detectedSection(LineAt(h)) : h \in {k \in 1..Len(scanLines) : IsHeaderLine(k)}}

\* the raw section of the kind is present in the record
RawPresent(kind) == RawSectionsOf(resume)[kind].t = "string"

EverySectionEmpty ==
  /\ \A kind \in KindSet : ~RawPresent(kind)
  /\ ~Truthy(resume.objective_or_summary)
  /\ resume.skills_or_tech_stack.items = <<>>
  /\ resume.education.items = <<>>
  /\ resume.experience.items = <<>>
  /\ resume.projects.items = <<>>
  /\ resume.certifications.items = <<>>
  /\ resume.languages.items = <<>>

\* the lines of the raw section of a kind
RawLines(kind) ==
  IF RawPresent(kind) THEN split(RawText(kind), {"\n"}) ELSE <<>>

\* C26: a document without a section header has every section empty after
\* the segmentation and the search for skills is due; lines scanned while no
\* section is active are in the output of no section.
C26_NoHeaderNoSection ==
  Segmented =>
    /\ NoSectionDetected => (EverySectionEmpty /\ NothingFound)
    /\ \A kind \in KindSet :
         RawLines(kind) = SubSeq(BodyLines(kind),
                                 Len(BodyLines(kind)) - Len(RawLines(kind)) + 1,
                                 Len(BodyLines(kind)))

\* a document of several lines without a header was segmented
C26_Witness ==
  /\ Segmented
  /\ NoSectionDetected
  /\ Len(scanLines) >= 2
  /\ buffer = [k \in 1..Len(scanLines) |-> LineAt(k)]
  /\ EverySectionEmpty

(***************************************************************************)
(* parseResumeText of resumeParser: the plain-text parser.  Its            *)
(* sectionKeywords, header test, processSectionBuffer cases, extractSkills,*)
(* extractProjects and skills fallback are the same text as in             *)
(* layoutlmParser; the contact extraction, extractEducation and            *)
(* extractExperience are its own.                                          *)
(***************************************************************************)
\* /\d{4}/
fourDigitsRegex == << <<Cls(DigitChars, 4, 4)>> >>

\* one iteration of the loop of extractExperience of resumeParser
resumeParser_ExperienceStep(st, line) ==
  IF Test(line, fourDigitsRegex) \/ includes(toLowerCase(line), "present")
  THEN IF HasKeys(st.currentEntry)
       THEN [entries |-> PushExperience(st),
             currentEntry |-> [NoEntry EXCEPT !.duration = Str(line)],
             responsibilities |-> <<>>]
       ELSE [st EXCEPT !.currentEntry = [NoEntry EXCEPT !.duration = Str(line)]]
  ELSE IF startsWith(line, "-")
  THEN [st EXCEPT !.responsibilities = Append(@, ReplaceFirst(line, bulletRegex(line)))]
  ELSE IF ~Truthy(st.currentEntry.company)
  THEN [st EXCEPT !.currentEntry.company = Str(line)]
  ELSE IF ~Truthy(st.currentEntry.position)
  THEN [st EXCEPT !.currentEntry.position = Str(line)]
  ELSE [st EXCEPT !.currentEntry.details = Str(line)]

RECURSIVE resumeParser_ExperienceLoop(_, _)
resumeParser_ExperienceLoop(st, lines) ==
  IF Len(lines) = 0 THEN st
  ELSE resumeParser_ExperienceLoop(resumeParser_ExperienceStep(st, Head(lines)),
                                   Tail(lines))

resumeParser_extractExperience(lines) ==
  LET Entries(st) == IF HasKeys(st.currentEntry) THEN PushExperience(st) ELSE st.entries
  IN Entries(resumeParser_ExperienceLoop(ExperienceStart, lines))

\* one iteration of the loop of extractEducation of resumeParser
resumeParser_EducationStep(st, line) ==
  IF Test(line, fourDigitsRegex)
  THEN [entries |-> IF HasKeys(st.currentEntry) THEN PushEducation(st) ELSE st.entries,
        currentEntry |-> [NoEducation EXCEPT !.details = Str(line)]]
  ELSE IF ~HasKeys(st.currentEntry)
  THEN [st EXCEPT !.currentEntry = [NoEducation EXCEPT !.institution = Str(line)]]
  ELSE [st EXCEPT !.currentEntry.degree = Str(line)]

RECURSIVE resumeParser_EducationLoop(_, _)
resumeParser_EducationLoop(st, lines) ==
  IF Len(lines) = 0 THEN st
  ELSE resumeParser_EducationLoop(resumeParser_EducationStep(st, Head(lines)),
                                  Tail(lines))

resumeParser_extractEducation(lines) ==
  LET Entries(st) == IF HasKeys(st.currentEntry) THEN PushEducation(st) ELSE st.entries
  IN Entries(resumeParser_EducationLoop(EducationStart, lines))

\* processSectionBuffer of resumeParser
resumeParser_processSectionBuffer(parsedRecord, section, buf) ==
  IF section = "education"
  THEN [parsedRecord EXCEPT
          !._raw_sections = [RawSectionsOf(parsedRecord) EXCEPT
                               !.education = Str(join(buf, "\n"))],
          !.education = Arr(resumeParser_extractEducation(buf))]
  ELSE IF section = "experience"
  THEN [parsedRecord EXCEPT
          !._raw_sections = [RawSectionsOf(parsedRecord) EXCEPT
                               !.experience = Str(join(buf, "\n"))],
          !.experience = Arr(resumeParser_extractExperience(buf))]
  ELSE processSectionBuffer(parsedRecord, section, buf)

\* the contact fields after a line that is not the first: every match
\* replaces the value found before
resumeParser_contactAfterLine(contact, line) ==
  ContactInfo(contact.name,
              IF Test(line, emailRegex(line))
              THEN Str(MatchText(line, emailRegex(line))) ELSE contact.email,
              IF Test(line, phoneRegex)
              THEN Str(MatchText(line, phoneRegex)) ELSE contact.phone,
              contact.location)

\* the loop variables of parseResumeText
resumeParser_Start == [section |-> "", buf |-> <<>>, rec |-> NewResume]

\* one iteration of the loop over the lines: the first line is the name and
\* nothing else
resumeParser_ScanLine(st, line, index) ==
  IF index = 0 /\ st.section = ""
  THEN [st EXCEPT !.rec.contact_information.name = Str(line)]
  ELSE LET Scanned(withContact, section) ==
             IF section # ""
             THEN [section |-> section,
                   buf |-> <<>>,
                   rec |-> IF Len(st.buf) > 0
                           THEN resumeParser_processSectionBuffer(withContact, st.section,
                                                                  st.buf)
                           ELSE withContact]
             ELSE [section |-> st.section,
                   buf |-> IF Len(line) > 0 THEN Append(st.buf, line) ELSE st.buf,
                   rec |-> withContact]
       IN Scanned([st.rec EXCEPT !.contact_information =
                                   resumeParser_contactAfterLine(@, line)],
                  detectedSection(line))

RECURSIVE resumeParser_Loop(_, _, _)
resumeParser_Loop(st, lines, index) ==
  IF index >= Len(lines) THEN st
  ELSE resumeParser_Loop(resumeParser_ScanLine(st, trim(lines[index + 1]), index),
                         lines, index + 1)

\* parseResumeText(text)
parseResumeText(text) ==
  LET Flush(st) == IF Len(st.buf) > 0
                   THEN resumeParser_processSectionBuffer(st.rec, st.section, st.buf)
                   ELSE st.rec
  IN skillsFallback(Flush(resumeParser_Loop(resumeParser_Start,
                                            NonBlank(split(text, {"\n"})), 0)),
                    text)

(***************************************************************************)
(* Properties of the two parsers                                           *)
(***************************************************************************)
\* the structured entries of a record
EntriesOf(parsedRecord) ==
  <<parsedRecord.objective_or_summary, parsedRecord.skills_or_tech_stack,
    parsedRecord.education, parsedRecord.experience, parsedRecord.projects,
    parsedRecord.certifications, parsedRecord.languages>>

\* C27: parseResumeText and parseResumeTextFallback, which have the same
\* keyword dictionaries, produce for the same document the same contact
\* information, the same raw sections and the same structured entries.
C27_SameResultAsPlainParser ==
  (uploadPc = "parsed") =>
    LET Same(plain) ==
          /\ plain.contact_information = resume.contact_information
          /\ RawSectionsOf(plain) = RawSectionsOf(resume)
          /\ EntriesOf(plain) = EntriesOf(resume)
    IN Same(parseResumeText(originalText))

(***************************************************************************)
(* Properties of the keyword sets                                          *)
(***************************************************************************)
\* the query is, as a whole, a keyword listed for some intent
ListedKeyword ==
  \E k \in 1..Len(IntentOrder) : q \in KeywordsOf(IntentOrder[k])

\* C28: a query that is exactly a keyword listed for an intent is answered by
\* that intent; no listed keyword is taken by an intent tested earlier.
C28_ListedKeywordOwnIntent ==
  (Answered /\ ListedKeyword) => q \in KeywordsOf(result.intent)

(***************************************************************************)
(* App: the React state, the two tables behind supabase, and the handlers  *)
(* as processes that are suspended at each await.  A request to supabase   *)
(* that reads is served at one step (its data is the table at that         *)
(* moment) and its continuation runs at a later one; a request that        *)
(* writes takes effect at the step its continuation runs.                  *)
(***************************************************************************)
MaxSessions == 2
MaxUserEvents == 3

\* the user calls a handler
UserEvent == userEvents < MaxUserEvents /\ userEvents' = userEvents + 1

RECURSIVE newestFirst(_)
\* .order('created_at', { ascending: false }): ids grow with created_at
newestFirst(ids) ==
  IF ids = {} THEN <<>>
  ELSE LET Newest(id) == <<id>> \o newestFirst(ids \ {id})
       IN Newest(CHOOSE id \in ids : \A other \in ids : other <= id)

Message(id, role) == [session_id |-> id, role |-> role]

\* .eq('session_id', sessionId).order('created_at', { ascending: true })
messagesOf(sessionId) == SelectSeq(dbMessages, LAMBDA m : m.session_id = sessionId)

\* sessions.find(s => s.id === sessionId) finds a session
Listed(sessionId) == \E k \in 1..Len(sessions) : sessions[k] = sessionId

\* prev.filter(s => s.id !== sessionId)
withoutSession(list, sessionId) == SelectSeq(list, LAMBDA id : id # sessionId)

\* App renders SessionSidebar
SidebarShown == currentSession # NoSession \/ Len(sessions) > 0

\* loadMessages(sessionId) up to its await; owner is the caller that awaits
\* it ("effect" when nothing does)
loadMessages(calls, sessionId, owner) ==
  calls \cup {[sessionId |-> sessionId, owner |-> owner, pc |-> "sent",
               error |-> FALSE, data |-> <<>>]}

\* an insert into chat_messages: the foreign key refuses a session that has
\* no row
insertMessage(rows, sessions_, id, role) ==
  IF id \in sessions_ THEN Append(rows, Message(id, role)) ELSE rows

\* the rows of resume_sessions and chat_messages left by earlier visits: each
\* session was made by handleFileUpload and has its welcome message
StoredApp(count) ==
  /\ dbSessions = 1..count
  /\ dbCreated = count
  /\ dbMessages = [k \in 1..count |-> Message(k, "assistant")]

\* App is mounted: useEffect(() => { loadSessions(); }, [])
AppInit ==
  /\ geminiAvailable = FALSE
  /\ pc = "idle"
  /\ parsedIn = EmptyObject
  /\ userQuestionRaw = ""
  /\ resumeText = Undef
  /\ parsed = EmptyObject
  /\ q = ""
  /\ geminiCalls = 0
  /\ geminiResponse = NoResponse
  /\ result = NoResult
  /\ apiKey = FALSE
  /\ ParserIdle
  /\ AppState
  /\ \E count \in 0..1 : StoredApp(count)
  /\ loadSessionsCall = [pc |-> "sent", error |-> FALSE, data |-> <<>>]

\* supabase answers the select of loadSessions
loadSessionsServed(error) ==
  /\ loadSessionsCall.pc = "sent"
  /\ loadSessionsCall' = [pc |-> "replied", error |-> error,
                          data |-> IF error THEN <<>> ELSE newestFirst(dbSessions)]
  /\ UNCHANGED <<sessions, currentSession, messages, isUploading, isChatLoading,
                 dbSessions, dbCreated, dbMessages, loadMessagesCalls, uploadCall,
                 sendCall, deleteCalls>>
  /\ UNCHANGED <<responderVars, parserVars, userEvents>>

\* loadSessions after its await
loadSessionsResumes ==
  /\ loadSessionsCall.pc = "replied"
  /\ sessions' = IF loadSessionsCall.error THEN sessions ELSE loadSessionsCall.data
  /\ loadSessionsCall' = [loadSessionsCall EXCEPT !.pc = "done"]
  /\ UNCHANGED <<currentSession, messages, isUploading, isChatLoading, dbSessions,
                 dbCreated, dbMessages, loadMessagesCalls, uploadCall, sendCall,
                 deleteCalls>>
  /\ UNCHANGED <<responderVars, parserVars, userEvents>>

\* supabase answers the select of a loadMessages call
loadMessagesServed(call, error) ==
  /\ call \in loadMessagesCalls
  /\ call.pc = "sent"
  /\ loadMessagesCalls' =
       (loadMessagesCalls \ {call})
       \cup {[call EXCEPT !.pc = "replied", !.error = error,
                          !.data = IF error THEN <<>> ELSE messagesOf(call.sessionId)]}
  /\ UNCHANGED <<sessions, currentSession, messages, isUploading, isChatLoading,
                 dbSessions, dbCreated, dbMessages, loadSessionsCall, uploadCall,
                 sendCall, deleteCalls>>
  /\ UNCHANGED <<responderVars, parserVars, userEvents>>

\* loadMessages after its await, and the rest of the handler that awaited it
\* (the finally block of handleFileUpload or of handleSendMessage)
loadMessagesResumes(call) ==
  /\ call \in loadMessagesCalls
  /\ call.pc = "replied"
  /\ messages' = IF call.error THEN messages ELSE call.data
  /\ loadMessagesCalls' = loadMessagesCalls \ {call}
  /\ isUploading' = IF call.owner = "upload" THEN FALSE ELSE isUploading
  /\ uploadCall' = IF call.owner = "upload" THEN NoCall ELSE uploadCall
  /\ isChatLoading' = IF call.owner = "send" THEN FALSE ELSE isChatLoading
  /\ sendCall' = IF call.owner = "send" THEN NoCall ELSE sendCall
  /\ UNCHANGED <<sessions, currentSession, dbSessions, dbCreated, dbMessages,
                 loadSessionsCall, deleteCalls>>
  /\ UNCHANGED <<responderVars, parserVars, userEvents>>

\* handleSelectSession(sessionId) for a session of the sidebar that is not
\* the current one; the effect on currentSession calls loadMessages
handleSelectSession(sessionId) ==
  /\ SidebarShown
  /\ Listed(sessionId)
  /\ sessionId # currentSession
  /\ currentSession' = sessionId
  /\ loadMessagesCalls' = loadMessages(loadMessagesCalls, sessionId, "effect")
  /\ UNCHANGED <<sessions, messages, isUploading, isChatLoading, dbSessions, dbCreated,
                 dbMessages, loadSessionsCall, uploadCall, sendCall, deleteCalls>>
  /\ UserEvent
  /\ UNCHANGED <<responderVars, parserVars>>

\* handleNewSession()
handleNewSession ==
  /\ SidebarShown
  /\ currentSession' = NoSession
  /\ messages' = <<>>
  /\ UNCHANGED <<sessions, isUploading, isChatLoading, dbSessions, dbCreated,
                 dbMessages, loadSessionsCall, loadMessagesCalls, uploadCall, sendCall,
                 deleteCalls>>
  /\ UserEvent
  /\ UNCHANGED <<responderVars, parserVars>>

\* handleDeleteSession(sessionId), confirmed, up to its await; the handler
\* keeps the currentSession of the render it was made in
handleDeleteSession(sessionId) ==
  /\ SidebarShown
  /\ Listed(sessionId)
  /\ deleteCalls' = deleteCalls
                    \cup {[sessionId |-> sessionId, currentSession |-> currentSession]}
  /\ UNCHANGED <<sessions, currentSession, messages, isUploading, isChatLoading,
                 dbSessions, dbCreated, dbMessages, loadSessionsCall,
                 loadMessagesCalls, uploadCall, sendCall>>
  /\ UserEvent
  /\ UNCHANGED <<responderVars, parserVars>>

\* handleDeleteSession after its await; the messages of the session go with
\* its row (ON DELETE CASCADE)
deleteSettles(call, error) ==
  /\ call \in deleteCalls
  /\ deleteCalls' = deleteCalls \ {call}
  /\ IF error
     THEN UNCHANGED <<sessions, currentSession, messages, dbSessions, dbMessages>>
     ELSE /\ dbSessions' = dbSessions \ {call.sessionId}
          /\ dbMessages' = SelectSeq(dbMessages,
                                     LAMBDA m : m.session_id # call.sessionId)
          /\ sessions' = withoutSession(sessions, call.sessionId)
          /\ IF call.currentSession = call.sessionId
             THEN currentSession' = NoSession /\ messages' = <<>>
             ELSE UNCHANGED <<currentSession, messages>>
  /\ UNCHANGED <<isUploading, isChatLoading, dbCreated, loadSessionsCall,
                 loadMessagesCalls, uploadCall, sendCall>>
  /\ UNCHANGED <<responderVars, parserVars, userEvents>>

\* handleFileUpload(file, text, imageData) up to the await of
\* parseResumeWithLayoutLM; FileUpload is rendered while no session is
\* current and its input is disabled while isUploading
handleFileUpload ==
  /\ currentSession = NoSession
  /\ ~isUploading
  /\ uploadCall.pc = "idle"
  /\ dbCreated < MaxSessions
  /\ isUploading' = TRUE
  /\ uploadCall' = [pc |-> "parse", session |-> NoSession]
  /\ UNCHANGED <<sessions, currentSession, messages, isChatLoading, dbSessions,
                 dbCreated, dbMessages, loadSessionsCall, loadMessagesCalls, sendCall,
                 deleteCalls>>
  /\ UserEvent
  /\ UNCHANGED <<responderVars, parserVars>>

\* one of the two parsers has produced the record; handleFileUpload runs to
\* the await of the insert into resume_sessions
resumeParsed ==
  /\ uploadCall.pc = "parse"
  /\ uploadCall' = [uploadCall EXCEPT !.pc = "insertSession"]
  /\ UNCHANGED <<sessions, currentSession, messages, isUploading, isChatLoading,
                 dbSessions, dbCreated, dbMessages, loadSessionsCall,
                 loadMessagesCalls, sendCall, deleteCalls>>
  /\ UNCHANGED <<responderVars, parserVars, userEvents>>

\* handleFileUpload after the insert into resume_sessions, up to the await
\* of the insert of the welcome message; the effect on currentSession calls
\* loadMessages
sessionInserted(error) ==
  /\ uploadCall.pc = "insertSession"
  /\ IF error
     THEN /\ isUploading' = FALSE
          /\ uploadCall' = NoCall
          /\ UNCHANGED <<sessions, currentSession, dbSessions, dbCreated,
                         loadMessagesCalls>>
     ELSE /\ dbCreated' = dbCreated + 1
          /\ dbSessions' = dbSessions \cup {dbCreated'}
          /\ sessions' = <<dbCreated'>> \o sessions
          /\ currentSession' = dbCreated'
          /\ loadMessagesCalls' = loadMessages(loadMessagesCalls, dbCreated', "effect")
          /\ uploadCall' = [pc |-> "insertWelcome", session |-> dbCreated']
          /\ UNCHANGED isUploading
  /\ UNCHANGED <<messages, isChatLoading, dbMessages, loadSessionsCall, sendCall,
                 deleteCalls>>
  /\ UNCHANGED <<responderVars, parserVars, userEvents>>

\* handleFileUpload after the insert of the welcome message, whose error is
\* not read, up to the await of loadMessages(session.id)
welcomeInserted(error) ==
  /\ uploadCall.pc = "insertWelcome"
  /\ dbMessages' = IF error THEN dbMessages
                   ELSE insertMessage(dbMessages, dbSessions, uploadCall.session,
                                      "assistant")
  /\ loadMessagesCalls' = loadMessages(loadMessagesCalls, uploadCall.session, "upload")
  /\ uploadCall' = [uploadCall EXCEPT !.pc = "loadMessages"]
  /\ UNCHANGED <<sessions, currentSession, messages, isUploading, isChatLoading,
                 dbSessions, dbCreated, loadSessionsCall, sendCall, deleteCalls>>
  /\ UNCHANGED <<responderVars, parserVars, userEvents>>

\* handleSendMessage(content) up to the await of the insert of the user's
\* message; ChatInterface submits only while isLoading is false
handleSendMessage ==
  /\ currentSession # NoSession
  /\ ~isChatLoading
  /\ sendCall.pc = "idle"
  /\ isChatLoading' = TRUE
  /\ sendCall' = [pc |-> "insertUser", session |-> currentSession]
  /\ UNCHANGED <<sessions, currentSession, messages, isUploading, dbSessions,
                 dbCreated, dbMessages, loadSessionsCall, loadMessagesCalls, uploadCall,
                 deleteCalls>>
  /\ UserEvent
  /\ UNCHANGED <<responderVars, parserVars>>

\* the catch and finally blocks of handleSendMessage
sendFails ==
  /\ isChatLoading' = FALSE
  /\ sendCall' = NoCall
  /\ UNCHANGED <<dbMessages, loadMessagesCalls>>

\* handleSendMessage after the insert of the user's message, up to the await
\* of answerFromParsed
userInserted(error) ==
  /\ sendCall.pc = "insertUser"
  /\ IF error \/ sendCall.session \notin dbSessions
     THEN sendFails
     ELSE /\ dbMessages' = insertMessage(dbMessages, dbSessions, sendCall.session,
                                         "user")
          /\ sendCall' = [sendCall EXCEPT !.pc = "answer"]
          /\ UNCHANGED <<isChatLoading, loadMessagesCalls>>
  /\ UNCHANGED <<sessions, currentSession, messages, isUploading, dbSessions,
                 dbCreated, loadSessionsCall, uploadCall, deleteCalls>>
  /\ UNCHANGED <<responderVars, parserVars, userEvents>>

\* answerFromParsed has returned or thrown; handleSendMessage runs to the
\* await of the insert of the answer
answerSettles(threw) ==
  /\ sendCall.pc = "answer"
  /\ IF threw
     THEN sendFails
     ELSE /\ sendCall' = [sendCall EXCEPT !.pc = "insertAssistant"]
          /\ UNCHANGED <<isChatLoading, dbMessages, loadMessagesCalls>>
  /\ UNCHANGED <<sessions, currentSession, messages, isUploading, dbSessions,
                 dbCreated, loadSessionsCall, uploadCall, deleteCalls>>
  /\ UNCHANGED <<responderVars, parserVars, userEvents>>

\* handleSendMessage after the insert of the answer, up to the await of
\* loadMessages(currentSession.id)
assistantInserted(error) ==
  /\ sendCall.pc = "insertAssistant"
  /\ IF error \/ sendCall.session \notin dbSessions
     THEN sendFails
     ELSE /\ dbMessages' = insertMessage(dbMessages, dbSessions, sendCall.session,
                                         "assistant")
          /\ loadMessagesCalls' = loadMessages(loadMessagesCalls, sendCall.session,
                                               "send")
          /\ sendCall' = [sendCall EXCEPT !.pc = "loadMessages"]
          /\ UNCHANGED isChatLoading
  /\ UNCHANGED <<sessions, currentSession, messages, isUploading, dbSessions,
                 dbCreated, loadSessionsCall, uploadCall, deleteCalls>>
  /\ UNCHANGED <<responderVars, parserVars, userEvents>>

SessionIds == 1..MaxSessions

AppNext ==
  \/ \E error \in BOOLEAN : loadSessionsServed(error)
  \/ loadSessionsResumes
  \/ \E call \in loadMessagesCalls, error \in BOOLEAN : loadMessagesServed(call, error)
  \/ \E call \in loadMessagesCalls : loadMessagesResumes(call)
  \/ \E sessionId \in SessionIds : handleSelectSession(sessionId)
  \/ handleNewSession
  \/ \E sessionId \in SessionIds : handleDeleteSession(sessionId)
  \/ \E call \in deleteCalls, error \in BOOLEAN : deleteSettles(call, error)
  \/ handleFileUpload
  \/ resumeParsed
  \/ \E error \in BOOLEAN : sessionInserted(error)
  \/ \E error \in BOOLEAN : welcomeInserted(error)
  \/ handleSendMessage
  \/ \E error \in BOOLEAN : userInserted(error)
  \/ \E threw \in BOOLEAN : answerSettles(threw)
  \/ \E error \in BOOLEAN : assistantInserted(error)

AppSpec == AppInit /\ [][AppNext]_vars

(***************************************************************************)
(* Properties of App                                                       *)
(***************************************************************************)
\* C29: the displayed messages are messages of the current session, and
\* there are none when no session is current.
C29_MessagesOfCurrentSession ==
  \A k \in 1..Len(messages) : messages[k].session_id = currentSession

\* C30: currentSession is null or a session of the sessions list.
C30_CurrentSessionListed ==
  currentSession = NoSession \/ Listed(currentSession)

====
